---- MODULE Spec2Model ----
(***************************************************************************)
(* A model of emer/empi: the mpi communicator verbs in their two builds    *)
(* (the transport-backed one and the "dummy" stand-in generated from       *)
(* dummy.gen.go.tmpl), and the empi helpers built on them (AllocN).        *)
(*                                                                         *)
(* A job is nproc processes, identified by their World rank.  Each process *)
(* owns its buffers (orig, dest, vals); nothing is shared, data moves only *)
(* through the communicator verbs.                                         *)
(***************************************************************************)
EXTENDS Integers, Sequences, FiniteSets, TLC

(***************************************************************************)
(* Bounds of the model.                                                    *)
(***************************************************************************)
\* largest World size explored in the transport-backed build
MaxProcs == 2
\* largest len(orig) of a collective call
MaxLen == 2
\* buffer elements range over -1..MaxVal
MaxVal == 1
\* Send / Recv tags range over 0..MaxTag
MaxTag == 1
\* AllocN is called with n in 0..MaxN
MaxN == 8
\* a failing transport call reports a status in 1..MaxStatus
MaxStatus == 1

VARIABLES
    mode,       \* the build: "mpi" (transport-backed) or "dummy" (stand-in)
    nproc,      \* number of processes of the job (World size)
    LogErrors,  \* the global toggle: are transport errors logged
    log,        \* per process: the lines written through package log
    n,          \* AllocN: the number of items to allocate
    alloc,      \* AllocN: per process, has it returned, and its (st, end, err)
    cm,         \* the communicator: the ranks NewComm is called with, and per process how far its NewComm is
    cur,        \* the verb the program runs on cm, with its arguments
    pc,         \* per process: "idle", "called" (inside the verb), "returned"
    orig,       \* per process: the orig (src) buffer
    dest,       \* per process: the dest buffer
    vals,       \* per process: the vals buffer of Send / Recv / Bcast
    entry,      \* per process: orig, dest and vals as they were on entering the verb
    ret,        \* per process: the error the verb returned (read when pc = "returned")
    prog,       \* Scatter-then-Gather program: per process, its step and the buffer it entered Scatter with
    faulty,     \* may the transport report a nonzero status in this job
    status,     \* per process: the status of the transport call its verb made
    p2p,        \* Send / Recv program: per process, the call it makes (verb, peer, tag)
    eager,      \* Send / Recv program: does the transport buffer a Send (or is it a rendezvous)
    tsr,        \* row gather: the call (tensor or table), the column kinds, the local rows, dest's rows
    loc,        \* row gather: per process, the column and collective it is in, and its locals
    PrintAllProcs, \* the global toggle: does Printf print on all processes
    prt,        \* per process: the Printf / Println calls it made and the lines it wrote
    fcfg,       \* FixedTable: the run, the Sequential flag, the table's name columns, what the generator drew
    ft          \* FixedTable: per process, the environment (Order, counters, TrialSt, TrialEd)

vars == <<mode, nproc, LogErrors, log, n, alloc, cm, cur, pc, orig, dest, vals, entry, ret, prog,
          faulty, status, p2p, eager, tsr, loc, PrintAllProcs, prt, fcfg, ft>>
allocVars == <<n, alloc>>
commVars == <<cm, cur, pc, orig, dest, vals, entry, ret>>
\* the state of the programs and helpers other than AllocN and the single verb
envVars == <<PrintAllProcs, prt, fcfg, ft>>
helperVars == <<prog, faulty, p2p, eager, tsr, loc, envVars>>

\* an error value: Nil, or a message with the code it carries
Nil == [text |-> "nil", code |-> 0, msg |-> <<>>]
MPI_SUCCESS == 0
\* the statuses a transport call may report
Statuses == 0 .. (IF faulty THEN MaxStatus ELSE 0)
\* Error(ec, ctxt): nil on success, else the error with the code and the call name
\* MPI_Error_string: the transport's message for a status
ErrorString(ec) == <<"MPI_Error_string", ec>>
Error(ec, ctxt) ==
    IF ec = MPI_SUCCESS THEN Nil ELSE [text |-> ctxt, code |-> ec, msg |-> ErrorString(ec)]
\* a slip: the error is logged whatever LogErrors is
Logged_Always(lg, e) == IF e # Nil THEN Append(lg, e) ELSE lg
\* Error logs the error it builds when LogErrors is on
Logged(lg, e) == IF e # Nil /\ LogErrors THEN Append(lg, e) ELSE lg
Modes == {"mpi", "dummy"}
AllProcs == 0 .. (MaxProcs - 1)
Procs == 0 .. (nproc - 1)

(***************************************************************************)
(* Go integer arithmetic: / truncates toward zero, % takes the sign of the *)
(* dividend.                                                               *)
(***************************************************************************)
GoDiv(a, b) == IF a >= 0 THEN a \div b ELSE 0 - ((0 - a) \div b)
GoMod(a, b) == a - b * GoDiv(a, b)

(***************************************************************************)
(* World rank and size.  In the mpi build they are MPI_Comm_size and       *)
(* MPI_Comm_rank of World; the dummy build has 1 proc of rank 0 always.    *)
(***************************************************************************)
MpiWorldSize == nproc
MpiWorldRank(p) == p
DummyWorldSize == 1
DummyWorldRank == 0
WorldSize == IF mode = "dummy" THEN DummyWorldSize ELSE MpiWorldSize
WorldRank(p) == IF mode = "dummy" THEN DummyWorldRank ELSE MpiWorldRank(p)

(***************************************************************************)
(* empi.AllocN                                                             *)
(***************************************************************************)
AllocErr == [text |-> "empi.AllocN: number is not an even multiple of number of MPI procs", code |-> 0, msg |-> <<>>]
NoAlloc == [called |-> FALSE, st |-> 0, end |-> 0, err |-> Nil]

\* a slip: ranks counted from 1 when placing the block
AllocN_RankFromOne(num, p) ==
    LET np == WorldSize
        err == IF GoMod(num, np) # 0 THEN AllocErr ELSE Nil
        pt == GoDiv(num, np)
        st == pt * (WorldRank(p) + 1)
    IN  [called |-> TRUE, st |-> st, end |-> st + pt, err |-> err]

\* a slip: the imbalance returns early, before the range is computed
AllocN_EarlyReturn(num, p) ==
    LET np == WorldSize
        pt == GoDiv(num, np)
        st == pt * WorldRank(p)
    IN  IF GoMod(num, np) # 0
        THEN [called |-> TRUE, st |-> 0, end |-> 0, err |-> AllocErr]
        ELSE [called |-> TRUE, st |-> st, end |-> st + pt, err |-> Nil]

AllocN(num, p) ==
    LET np == WorldSize
        err == IF GoMod(num, np) # 0 THEN AllocErr ELSE Nil
        pt == GoDiv(num, np)
        st == pt * WorldRank(p)
    IN  [called |-> TRUE, st |-> st, end |-> st + pt, err |-> err]

\* a slip: the imbalance is logged only when LogErrors is on
CallAllocN_Gated(p) ==
    /\ ~alloc[p].called
    /\ alloc' = [alloc EXCEPT ![p] = AllocN(n, p)]
    /\ log' = [log EXCEPT ![p] = Logged(@, AllocN(n, p).err)]
    /\ UNCHANGED <<mode, nproc, LogErrors, n, status>>
    /\ UNCHANGED commVars
    /\ UNCHANGED helperVars

\* process p calls AllocN(n): the imbalance is logged, whatever LogErrors is
CallAllocN(p) ==
    /\ ~alloc[p].called
    /\ alloc' = [alloc EXCEPT ![p] = AllocN(n, p)]
    /\ log' = [log EXCEPT ![p] = IF AllocN(n, p).err # Nil
                                   THEN Append(@, AllocN(n, p).err)
                                   ELSE @]
    /\ UNCHANGED <<mode, nproc, LogErrors, n, status>>
    /\ UNCHANGED commVars
    /\ UNCHANGED helperVars

NoComm ==
    [made |-> FALSE, ranks |-> <<>>, at |-> [p \in AllProcs |-> "none"],
     sts |-> [p \in AllProcs |-> <<>>], err |-> [p \in AllProcs |-> Nil]]
NoVerb == [verb |-> "none", root |-> 0, tag |-> 0, op |-> "none", len |-> 0, fill |-> 0]
NoEntry == [orig |-> <<>>, dest |-> <<>>, vals |-> <<>>]
NoProg == [p \in AllProcs |-> [step |-> 0, B |-> <<>>]]
NoP2P == [verb |-> "none", peer |-> 0, tag |-> 0]
NoTsr == [call |-> "none", kinds |-> <<>>, rows |-> 0, d0 |-> 0]
NoLoc == [ci |-> 0, ph |-> "none", entered |-> {}, dln |-> <<>>, sts |-> <<>>]
NoPrt == [calls |-> 0, out |-> <<>>]
NoCfg == [run |-> 0, Sequential |-> FALSE, cols |-> {}, draws |-> {}]
NoCtr == [Cur |-> 0, Prv |-> 0, Chg |-> FALSE, Max |-> 0]
NoFt == [inited |-> FALSE, Order |-> <<>>, rng |-> <<>>, Run |-> NoCtr, Epoch |-> NoCtr,
         Trial |-> NoCtr, TrialSt |-> 0, TrialEd |-> 0, steps |-> 0, direct |-> 0,
         row |-> 0 - 1, panic |-> FALSE, shown |-> <<>>]

InitWorld ==
    /\ mode \in Modes
    /\ nproc \in (IF mode = "dummy" THEN {1} ELSE 1 .. MaxProcs)
    /\ log = [p \in AllProcs |-> <<>>]

InitCommIdle ==
    /\ cm = NoComm
    /\ cur = NoVerb
    /\ pc = [p \in AllProcs |-> "idle"]
    /\ orig = [p \in AllProcs |-> <<>>]
    /\ dest = [p \in AllProcs |-> <<>>]
    /\ vals = [p \in AllProcs |-> <<>>]
    /\ entry = [p \in AllProcs |-> NoEntry]
    /\ ret = [p \in AllProcs |-> Nil]
    /\ status = [p \in AllProcs |-> MPI_SUCCESS]

InitEnvIdle ==
    /\ PrintAllProcs = FALSE
    /\ prt = [p \in AllProcs |-> NoPrt]
    /\ fcfg = NoCfg
    /\ ft = [p \in AllProcs |-> NoFt]

InitHelpersIdle ==
    /\ prog = NoProg
    /\ faulty = FALSE
    /\ p2p = [p \in AllProcs |-> NoP2P]
    /\ eager = FALSE
    /\ tsr = NoTsr
    /\ loc = [p \in AllProcs |-> NoLoc]
    /\ InitEnvIdle

(***************************************************************************)
(* The communicator.  NewComm(ranks) makes the World communicator when     *)
(* ranks is empty, and otherwise the group of the given World ranks, whose *)
(* members are ranked by their position in the list.  The dummy build has  *)
(* 1 proc of rank 0 always, whatever the list.                             *)
(***************************************************************************)
Vals == (0 - 1) .. MaxVal
Tags == 0 .. MaxTag
Ops == {"OpSum", "OpMax", "OpMin", "OpProd"}
World == [i \in 1 .. nproc |-> i - 1]
\* the rank lists NewComm is called with: nil, or distinct World ranks in any order
RankLists ==
    {<<>>} \cup UNION {{f \in [1 .. k -> AllProcs] : \A i, j \in 1 .. k : i # j => f[i] # f[j]} :
                       k \in 1 .. MaxProcs}
Elems(sq) == {sq[i] : i \in 1 .. Len(sq)}

\* the members of cm, by communicator rank (position i holds rank i - 1)
MpiMembers == IF Len(cm.ranks) = 0 THEN World ELSE cm.ranks
MpiSize == Len(MpiMembers)
MpiRank(p) == (CHOOSE i \in 1 .. Len(MpiMembers) : MpiMembers[i] = p) - 1
\* a slip: the dummy communicator counts the ranks it was made from
DummySize_FromRanks == IF cm.made /\ Len(cm.ranks) > 0 THEN Len(cm.ranks) ELSE 1
DummySize == 1
DummyRank == 0

Members == IF mode = "dummy" THEN <<0>> ELSE MpiMembers
IsMember(p) == p \in Elems(Members)
Size == IF mode = "dummy" THEN DummySize ELSE MpiSize
Rank(p) == IF mode = "dummy" THEN DummyRank ELSE MpiRank(p)
ProcOf(r) == Members[r + 1]

\* process p is at the point `at` of its NewComm(ranks): the transport calls it has
\* made reported sts, and Error has built e.  Every process runs the same program,
\* so all call NewComm with the same ranks.
Made(p, ranks, at, sts, e) ==
    /\ cm.made => ranks = cm.ranks
    /\ cm' = [cm EXCEPT !.made = TRUE, !.ranks = ranks, !.at[p] = at, !.sts[p] = sts, !.err[p] = e]
    /\ log' = [log EXCEPT ![p] = Logged(@, e)]
    /\ UNCHANGED <<mode, nproc, LogErrors, cur, pc, orig, dest, vals, entry, ret, status>>
    /\ UNCHANGED allocVars
    /\ UNCHANGED helperVars

\* NewComm of the mpi build, called by process p: the ranks name processes of
\* World.  With no ranks it returns the status of MPI_Comm_group; with ranks it
\* calls MPI_Comm_group and MPI_Group_incl, whose statuses it drops, and enters
\* MPI_Comm_create.
MpiNewComm(p, ranks) ==
    /\ mode = "mpi" /\ Elems(ranks) \subseteq Procs /\ cm.at[p] = "none"
    /\ \E s1, s2 \in Statuses :
          IF Len(ranks) = 0
          THEN s2 = s1 /\ Made(p, ranks, "done", <<s1>>, Error(s1, "MPI_Comm_group"))
          ELSE Made(p, ranks, "create", <<s1, s2>>, Nil)
\* MPI_Comm_create is collective over World: it succeeds on p once every process
\* of World has entered it; NewComm returns its status alone.
MpiCommCreate(p) ==
    /\ mode = "mpi" /\ cm.at[p] = "create"
    /\ \E s3 \in Statuses :
          /\ s3 = MPI_SUCCESS => \A q \in Procs : cm.at[q] # "none"
          /\ Made(p, cm.ranks, "done", Append(cm.sts[p], s3), Error(s3, "Comm_create"))
\* NewComm of the dummy build: any rank list gives the one-process communicator
DummyNewComm(p, ranks) == mode = "dummy" /\ cm.at[p] = "none" /\ Made(p, ranks, "done", <<>>, Nil)
\* process p has its communicator: every transport call of its NewComm succeeded
CommOkFor(p) == cm.at[p] = "done" /\ \A i \in 1 .. Len(cm.sts[p]) : cm.sts[p][i] = MPI_SUCCESS
\* every member has its communicator
CommOk == cm.made /\ \A i \in 1 .. Len(Members) : CommOkFor(Members[i])

(***************************************************************************)
(* Buffers.  A call of length L by a process holding value v works on the  *)
(* buffer v, v+1, ..., v+L-1; dest starts filled with cur.fill.            *)
(***************************************************************************)
Ramp(v, L) == [i \in 1 .. L |-> v + i - 1]
Fill(L) == [i \in 1 .. L |-> cur.fill]
UsesVals(verb) == verb \in {"Send", "Recv", "Bcast"}
UsesDest(verb) == verb \in {"Reduce", "AllReduce", "Gather", "AllGather", "Scatter"}
HasRoot(verb) == verb \in {"Send", "Recv", "Bcast", "Reduce", "Gather", "Scatter"}
HasTag(verb) == verb \in {"Send", "Recv"}
HasOp(verb) == verb \in {"Reduce", "AllReduce"}
NoData(verb) == verb \in {"Barrier", "Abort"}
OrigLen(verb) == IF verb = "Scatter" THEN Size * cur.len ELSE IF UsesDest(verb) THEN cur.len ELSE 0
DestLen(verb) == IF verb \in {"Gather", "AllGather"} THEN Size * cur.len
                 ELSE IF UsesDest(verb) THEN cur.len ELSE 0

\* process p, a member of cm, enters the verb of the program with its buffers
Call(p, v) ==
    /\ CommOkFor(p) /\ IsMember(p) /\ pc[p] = "idle"
    /\ mode = "mpi" => cur.root < Size
    /\ NoData(cur.verb) => v = 0
    /\ pc' = [pc EXCEPT ![p] = "called"]
    /\ orig' = [orig EXCEPT ![p] = Ramp(v, OrigLen(cur.verb))]
    /\ dest' = [dest EXCEPT ![p] = Fill(DestLen(cur.verb))]
    /\ vals' = [vals EXCEPT ![p] = IF UsesVals(cur.verb) THEN Ramp(v, cur.len) ELSE <<>>]
    /\ entry' = [entry EXCEPT ![p] = [orig |-> orig'[p], dest |-> dest'[p], vals |-> vals'[p]]]
    /\ UNCHANGED <<mode, nproc, LogErrors, log, cm, cur, ret, status>>
    /\ UNCHANGED allocVars
    /\ UNCHANGED helperVars

\* the verb returns e to process p, its transport call having reported ec
Return(p, ec, e) ==
    /\ pc' = [pc EXCEPT ![p] = "returned"]
    /\ ret' = [ret EXCEPT ![p] = e]
    /\ status' = [status EXCEPT ![p] = ec]
    /\ log' = [log EXCEPT ![p] = Logged(@, e)]
    /\ UNCHANGED <<mode, nproc, LogErrors, cm, cur, entry>>
    /\ UNCHANGED allocVars
    /\ UNCHANGED helperVars

\* the verb returns e to process p without any transport call
Done(p, e) == Return(p, MPI_SUCCESS, e)

(***************************************************************************)
(* The dummy build (dummy.gen.go.tmpl): every verb is "return nil".  No    *)
(* verb waits for a peer and no verb touches a buffer.                     *)
(***************************************************************************)
\* the verb process p is in: its own call in the Send / Recv program, else the program's verb
VerbOf(p) ==
    IF p2p[p].verb # "none" THEN p2p[p].verb ELSE IF prog[p].step = 1 THEN "Gather" ELSE cur.verb
InDummy(p, verb) == mode = "dummy" /\ VerbOf(p) = verb /\ pc[p] = "called"

\* a slip: Send meets its receiver before it returns
DummySend_Rendezvous(p) ==
    /\ InDummy(p, "Send") /\ \E q \in Procs : q # p /\ pc[q] = "called"
    /\ Done(p, Nil) /\ UNCHANGED <<orig, dest, vals>>

DummySend(p) == InDummy(p, "Send") /\ Done(p, Nil) /\ UNCHANGED <<orig, dest, vals>>
DummyRecv(p) == InDummy(p, "Recv") /\ Done(p, Nil) /\ UNCHANGED <<orig, dest, vals>>
DummyBcast(p) == InDummy(p, "Bcast") /\ Done(p, Nil) /\ UNCHANGED <<orig, dest, vals>>
DummyReduce(p) == InDummy(p, "Reduce") /\ Done(p, Nil) /\ UNCHANGED <<orig, dest, vals>>
DummyAllReduce(p) == InDummy(p, "AllReduce") /\ Done(p, Nil) /\ UNCHANGED <<orig, dest, vals>>
DummyGather(p) == InDummy(p, "Gather") /\ Done(p, Nil) /\ UNCHANGED <<orig, dest, vals>>
DummyAllGather(p) == InDummy(p, "AllGather") /\ Done(p, Nil) /\ UNCHANGED <<orig, dest, vals>>
DummyScatter(p) == InDummy(p, "Scatter") /\ Done(p, Nil) /\ UNCHANGED <<orig, dest, vals>>
\* Barrier and Abort of the dummy build succeed trivially
DummyBarrier(p) == InDummy(p, "Barrier") /\ Done(p, Nil) /\ UNCHANGED <<orig, dest, vals>>
DummyAbort(p) == InDummy(p, "Abort") /\ Done(p, Nil) /\ UNCHANGED <<orig, dest, vals>>

(***************************************************************************)
(* The mpi build: each verb hands its buffers to the transport call and    *)
(* returns Error(status, name).  The transport completes a collective on a *)
(* member once the data that member is owed is there: what it leaves in    *)
(* the member's buffers is given by BcastVals .. ScatterDest.  A call that *)
(* fails may return at any time and leaves the buffers as they were.       *)
(***************************************************************************)
Entered(p) == pc[p] \in {"called", "returned"}
AllEntered == \A i \in 1 .. Len(Members) : Entered(Members[i])
\* every member has entered the call of the program that p is in
Joined(p) == \A i \in 1 .. Len(Members) : Entered(Members[i]) /\ prog[Members[i]].step >= prog[p].step
\* the buffer process p entered its first call with
FirstOrig(p) == IF prog[p].step = 1 THEN prog[p].B ELSE orig[p]
InMpi(p, verb) == mode = "mpi" /\ VerbOf(p) = verb /\ pc[p] = "called"

OpApply(op, a, b) ==
    CASE op = "OpSum" -> a + b
      [] op = "OpMax" -> IF a >= b THEN a ELSE b
      [] op = "OpMin" -> IF a <= b THEN a ELSE b
      [] op = "OpProd" -> a * b

\* element i of orig combined over the ranks 0..r
RECURSIVE ReduceElem(_, _, _)
ReduceElem(op, i, r) ==
    IF r = 0 THEN orig[ProcOf(0)][i]
    ELSE OpApply(op, ReduceElem(op, i, r - 1), orig[ProcOf(r)][i])
Combined == [i \in 1 .. cur.len |-> ReduceElem(cur.op, i, Size - 1)]
\* every member's contribution of L elements, one after the other by ascending rank
Tile(src, L) == [j \in 1 .. Size * L |-> src[ProcOf((j - 1) \div L)][((j - 1) % L) + 1]]
\* every member's orig, one after the other by ascending rank
Tiled == Tile(orig, cur.len)
\* the r-th chunk of the root's orig
Chunk(r) == [i \in 1 .. cur.len |-> FirstOrig(ProcOf(cur.root))[r * cur.len + i]]

BcastVals(p) == entry[ProcOf(cur.root)].vals
ReduceDest(p) == IF Rank(p) = cur.root THEN Combined ELSE entry[p].dest
AllReduceDest(p) == Combined
GatherDest(p) == IF Rank(p) = cur.root THEN Tiled ELSE entry[p].dest
AllGatherDest(p) == Tiled
ScatterDest(p) == Chunk(Rank(p))

\* a slip: the broadcast is rooted at Root (rank 0), not at the rank given
MpiBcast_FromRoot(p) ==
    \E ec \in Statuses :
        /\ InMpi(p, "Bcast") /\ (ec = MPI_SUCCESS => Entered(ProcOf(0)))
        /\ vals' = [vals EXCEPT ![p] = IF ec = MPI_SUCCESS THEN entry[ProcOf(0)].vals ELSE @]
        /\ Return(p, ec, Error(ec, "Bcast64")) /\ UNCHANGED <<orig, dest>>

MpiBcast(p) ==
    \E ec \in Statuses :
        /\ InMpi(p, "Bcast") /\ (ec = MPI_SUCCESS => Entered(ProcOf(cur.root)))
        /\ vals' = [vals EXCEPT ![p] = IF ec = MPI_SUCCESS THEN BcastVals(p) ELSE @]
        /\ Return(p, ec, Error(ec, "Bcast64")) /\ UNCHANGED <<orig, dest>>

MpiReduce(p) ==
    \E ec \in Statuses :
        /\ InMpi(p, "Reduce") /\ (ec = MPI_SUCCESS => (Rank(p) = cur.root => AllEntered))
        /\ dest' = [dest EXCEPT ![p] = IF ec = MPI_SUCCESS THEN ReduceDest(p) ELSE @]
        /\ Return(p, ec, Error(ec, "Reduce64")) /\ UNCHANGED <<orig, vals>>

MpiAllReduce(p) ==
    \E ec \in Statuses :
        /\ InMpi(p, "AllReduce") /\ (ec = MPI_SUCCESS => AllEntered)
        /\ dest' = [dest EXCEPT ![p] = IF ec = MPI_SUCCESS THEN AllReduceDest(p) ELSE @]
        /\ Return(p, ec, Error(ec, "AllReduce64")) /\ UNCHANGED <<orig, vals>>

MpiGather(p) ==
    \E ec \in Statuses :
        /\ InMpi(p, "Gather") /\ (ec = MPI_SUCCESS => (Rank(p) = cur.root => Joined(p)))
        /\ dest' = [dest EXCEPT ![p] = IF ec = MPI_SUCCESS THEN GatherDest(p) ELSE @]
        /\ Return(p, ec, Error(ec, "Gather")) /\ UNCHANGED <<orig, vals>>

MpiAllGather(p) ==
    \E ec \in Statuses :
        /\ InMpi(p, "AllGather") /\ (ec = MPI_SUCCESS => AllEntered)
        /\ dest' = [dest EXCEPT ![p] = IF ec = MPI_SUCCESS THEN AllGatherDest(p) ELSE @]
        /\ Return(p, ec, Error(ec, "AllGather")) /\ UNCHANGED <<orig, vals>>

MpiScatter(p) ==
    \E ec \in Statuses :
        /\ InMpi(p, "Scatter") /\ (ec = MPI_SUCCESS => Entered(ProcOf(cur.root)))
        /\ dest' = [dest EXCEPT ![p] = IF ec = MPI_SUCCESS THEN ScatterDest(p) ELSE @]
        /\ Return(p, ec, Error(ec, "Scatter")) /\ UNCHANGED <<orig, vals>>

\* a slip: Barrier returns as soon as it is entered
MpiBarrier_NoWait(p) ==
    \E ec \in Statuses :
        /\ InMpi(p, "Barrier")
        /\ Return(p, ec, Error(ec, "Barrier")) /\ UNCHANGED <<orig, dest, vals>>

MpiBarrier(p) ==
    \E ec \in Statuses :
        /\ InMpi(p, "Barrier") /\ (ec = MPI_SUCCESS => AllEntered)
        /\ Return(p, ec, Error(ec, "Barrier")) /\ UNCHANGED <<orig, dest, vals>>

(***************************************************************************)
(* Point-to-point in the mpi build.  A Send is posted when it is entered   *)
(* and MPI_Send returns once the buffer may be reused: at once when the    *)
(* transport buffers the message (eager), and otherwise when the matching  *)
(* Recv has taken it.  MPI_Recv returns when a Send to this rank, from the *)
(* rank and with the tag it names, has been posted.  MPI_Abort ends the    *)
(* whole job.                                                              *)
(***************************************************************************)
\* the Send of p has been handed to the transport
Posted(p) ==
    /\ p2p[p].verb = "Send"
    /\ pc[p] = "called" \/ (pc[p] = "returned" /\ status[p] = MPI_SUCCESS)
\* the Send of p is the one the Recv of q names
Pairs(p, q) ==
    /\ p2p[p].verb = "Send" /\ p2p[q].verb = "Recv"
    /\ p2p[p].peer = Rank(q) /\ p2p[q].peer = Rank(p) /\ p2p[p].tag = p2p[q].tag
\* the message of p's Send has been received
Taken(p) ==
    \E q \in Procs : IsMember(q) /\ Pairs(p, q) /\ pc[q] = "returned" /\ status[q] = MPI_SUCCESS
\* the process the call of p names
Peer(p) == ProcOf(p2p[p].peer)

\* a slip: Recv takes a message of any tag
MpiRecv_AnyTag(p) ==
    \E ec \in Statuses :
        /\ InMpi(p, "Recv")
        /\ ec = MPI_SUCCESS => Posted(Peer(p)) /\ p2p[Peer(p)].peer = Rank(p)
        /\ vals' = [vals EXCEPT ![p] = IF ec = MPI_SUCCESS THEN entry[Peer(p)].vals ELSE @]
        /\ Return(p, ec, Error(ec, "Recv64")) /\ UNCHANGED <<orig, dest>>

MpiSend(p) ==
    \E ec \in Statuses :
        /\ InMpi(p, "Send") /\ (ec = MPI_SUCCESS => (eager \/ Taken(p)))
        /\ Return(p, ec, Error(ec, "Send64")) /\ UNCHANGED <<orig, dest, vals>>

MpiRecv(p) ==
    \E ec \in Statuses :
        /\ InMpi(p, "Recv")
        /\ ec = MPI_SUCCESS => Posted(Peer(p)) /\ Pairs(Peer(p), p)
        /\ vals' = [vals EXCEPT ![p] = IF ec = MPI_SUCCESS THEN entry[Peer(p)].vals ELSE @]
        /\ Return(p, ec, Error(ec, "Recv64")) /\ UNCHANGED <<orig, dest>>

\* MPI_Abort: every process of the job is terminated
MpiAbort(p) ==
    /\ InMpi(p, "Abort")
    /\ pc' = [q \in AllProcs |-> IF q \in Procs THEN "aborted" ELSE pc[q]]
    /\ UNCHANGED <<mode, nproc, LogErrors, log, cm, cur, orig, dest, vals, entry, ret, status>>
    /\ UNCHANGED allocVars
    /\ UNCHANGED helperVars

(***************************************************************************)
(* The program: NewComm, then every member calls one verb on cm.           *)
(***************************************************************************)
Collectives == {"Bcast", "Reduce", "AllReduce", "Gather", "AllGather", "Scatter", "Barrier"}
Verbs == Collectives \cup {"Send", "Recv", "Abort"}
VerbCalls ==
    {c \in [verb : Verbs, root : AllProcs, tag : Tags, op : Ops \cup {"none"},
            len : 0 .. MaxLen, fill : Vals] :
        /\ (c.op # "none") <=> HasOp(c.verb)
        /\ ~HasRoot(c.verb) => c.root = 0
        /\ ~HasTag(c.verb) => c.tag = 0
        /\ (c.len = 0) <=> NoData(c.verb)
        /\ ~UsesDest(c.verb) => c.fill = 0}

Init ==
    /\ InitWorld
    /\ LogErrors = TRUE
    /\ n = 0
    /\ alloc = [p \in AllProcs |-> NoAlloc]
    /\ cm = NoComm
    /\ cur \in VerbCalls
    /\ mode = "mpi" => cur.verb \in Collectives
    /\ pc = [p \in AllProcs |-> "idle"]
    /\ orig = [p \in AllProcs |-> <<>>]
    /\ dest = [p \in AllProcs |-> <<>>]
    /\ vals = [p \in AllProcs |-> <<>>]
    /\ entry = [p \in AllProcs |-> NoEntry]
    /\ ret = [p \in AllProcs |-> Nil]
    /\ status = [p \in AllProcs |-> MPI_SUCCESS]
    /\ InitHelpersIdle

Next ==
    \/ \E p \in Procs, ranks \in RankLists : MpiNewComm(p, ranks)
    \/ \E p \in Procs : MpiCommCreate(p)
    \/ \E p \in Procs, ranks \in RankLists : DummyNewComm(p, ranks)
    \/ \E p \in Procs, v \in Vals : Call(p, v)
    \/ \E p \in Procs : DummySend(p)
    \/ \E p \in Procs : DummyRecv(p)
    \/ \E p \in Procs : DummyBcast(p)
    \/ \E p \in Procs : DummyReduce(p)
    \/ \E p \in Procs : DummyAllReduce(p)
    \/ \E p \in Procs : DummyGather(p)
    \/ \E p \in Procs : DummyAllGather(p)
    \/ \E p \in Procs : DummyScatter(p)
    \/ \E p \in Procs : DummyBarrier(p)
    \/ \E p \in Procs : DummyAbort(p)
    \/ \E p \in Procs : MpiBcast(p)
    \/ \E p \in Procs : MpiReduce(p)
    \/ \E p \in Procs : MpiAllReduce(p)
    \/ \E p \in Procs : MpiGather(p)
    \/ \E p \in Procs : MpiAllGather(p)
    \/ \E p \in Procs : MpiScatter(p)
    \/ \E p \in Procs : MpiBarrier(p)

Spec == Init /\ [][Next]_vars

InitAlloc ==
    /\ InitWorld
    /\ LogErrors \in BOOLEAN
    /\ n \in 0 .. MaxN
    /\ alloc = [p \in AllProcs |-> NoAlloc]
    /\ InitCommIdle
    /\ InitHelpersIdle

NextAlloc == \E p \in Procs : CallAllocN(p)

SpecAlloc == InitAlloc /\ [][NextAlloc]_vars

(***************************************************************************)
(* The Scatter-then-Gather program: every member calls                     *)
(* Scatter(f, dest, B) and then Gather(f, out, dest), the chunk it was     *)
(* given being what it contributes.                                        *)
(***************************************************************************)
Returned(p) == cm.made /\ IsMember(p) /\ pc[p] = "returned"
AllReturned == cm.made /\ \A i \in 1 .. Len(Members) : pc[Members[i]] = "returned"

\* process p, back from Scatter, runs on to Gather(f, out, dest): its
\* Scatter dest is the src.  It waits for no other member to do so.
ThenGather(p) ==
    /\ cur.verb = "Scatter" /\ prog[p].step = 0 /\ Returned(p)
    /\ prog' = [prog EXCEPT ![p] = [step |-> 1, B |-> entry[p].orig]]
    /\ pc' = [pc EXCEPT ![p] = "called"]
    /\ orig' = [orig EXCEPT ![p] = dest[p]]
    /\ dest' = [dest EXCEPT ![p] = Fill(DestLen("Gather"))]
    /\ entry' = [entry EXCEPT ![p] = [orig |-> orig'[p], dest |-> dest'[p], vals |-> vals[p]]]
    /\ UNCHANGED <<mode, nproc, LogErrors, log, cm, cur, vals, ret, status>>
    /\ UNCHANGED <<faulty, p2p, eager, tsr, loc>>
    /\ UNCHANGED envVars
    /\ UNCHANGED allocVars

InitScatterGather ==
    /\ InitWorld
    /\ LogErrors = TRUE
    /\ n = 0
    /\ alloc = [p \in AllProcs |-> NoAlloc]
    /\ cm = NoComm
    /\ cur \in {c \in VerbCalls : c.verb = "Scatter"}
    /\ pc = [p \in AllProcs |-> "idle"]
    /\ orig = [p \in AllProcs |-> <<>>]
    /\ dest = [p \in AllProcs |-> <<>>]
    /\ vals = [p \in AllProcs |-> <<>>]
    /\ entry = [p \in AllProcs |-> NoEntry]
    /\ ret = [p \in AllProcs |-> Nil]
    /\ status = [p \in AllProcs |-> MPI_SUCCESS]
    /\ InitHelpersIdle

NextScatterGather ==
    \/ \E p \in Procs, ranks \in RankLists : MpiNewComm(p, ranks)
    \/ \E p \in Procs : MpiCommCreate(p)
    \/ \E p \in Procs, ranks \in RankLists : DummyNewComm(p, ranks)
    \/ \E p \in Procs, v \in Vals : Call(p, v)
    \/ \E p \in Procs : MpiScatter(p)
    \/ \E p \in Procs : DummyScatter(p)
    \/ \E p \in Procs : ThenGather(p)
    \/ \E p \in Procs : MpiGather(p)
    \/ \E p \in Procs : DummyGather(p)

SpecScatterGather == InitScatterGather /\ [][NextScatterGather]_vars

(***************************************************************************)
(* The Barrier program: NewComm, then every member calls Barrier once.     *)
(* Each process is an operating-system process of its own and the          *)
(* transport completes a call whose condition is met, so a Barrier that    *)
(* may return does return: weak fairness on every return.                  *)
(***************************************************************************)
InitBarrier ==
    /\ InitWorld
    /\ LogErrors \in BOOLEAN
    /\ n = 0
    /\ alloc = [p \in AllProcs |-> NoAlloc]
    /\ cm = NoComm
    /\ cur \in {c \in VerbCalls : c.verb = "Barrier"}
    /\ pc = [p \in AllProcs |-> "idle"]
    /\ orig = [p \in AllProcs |-> <<>>]
    /\ dest = [p \in AllProcs |-> <<>>]
    /\ vals = [p \in AllProcs |-> <<>>]
    /\ entry = [p \in AllProcs |-> NoEntry]
    /\ ret = [p \in AllProcs |-> Nil]
    /\ status = [p \in AllProcs |-> MPI_SUCCESS]
    /\ prog = NoProg
    /\ faulty \in BOOLEAN
    /\ p2p = [p \in AllProcs |-> NoP2P]
    /\ eager = FALSE
    /\ tsr = NoTsr
    /\ loc = [p \in AllProcs |-> NoLoc]
    /\ InitEnvIdle

NextBarrier ==
    \/ \E p \in Procs, ranks \in RankLists : MpiNewComm(p, ranks)
    \/ \E p \in Procs : MpiCommCreate(p)
    \/ \E p \in Procs, ranks \in RankLists : DummyNewComm(p, ranks)
    \/ \E p \in Procs : Call(p, 0)
    \/ \E p \in Procs : MpiBarrier(p)
    \/ \E p \in Procs : DummyBarrier(p)

FairBarrier == \A p \in AllProcs : WF_vars(MpiBarrier(p)) /\ WF_vars(DummyBarrier(p))

SpecBarrier == InitBarrier /\ [][NextBarrier]_vars /\ FairBarrier

(***************************************************************************)
(* The Send / Recv program: NewComm, then each member makes one call of    *)
(* its own: Send(peer, tag, vals), Recv(peer, tag, vals) or Abort().       *)
(***************************************************************************)
P2PVerbs == {"Send", "Recv", "Abort"}

\* process p enters its call; a Send carries v, v+1, .., a Recv buffer holds cur.fill
CallP2P(p, verb, peer, tag, v) ==
    /\ CommOkFor(p) /\ IsMember(p) /\ pc[p] = "idle"
    /\ mode = "mpi" => peer < Size
    /\ verb = "Abort" => peer = 0 /\ tag = 0
    /\ verb # "Send" => v = 0
    /\ p2p' = [p2p EXCEPT ![p] = [verb |-> verb, peer |-> peer, tag |-> tag]]
    /\ pc' = [pc EXCEPT ![p] = "called"]
    /\ vals' = [vals EXCEPT ![p] = CASE verb = "Send" -> Ramp(v, cur.len)
                                      [] verb = "Recv" -> Fill(cur.len)
                                      [] OTHER -> <<>>]
    /\ entry' = [entry EXCEPT ![p] = [orig |-> orig[p], dest |-> dest[p], vals |-> vals'[p]]]
    /\ UNCHANGED <<mode, nproc, LogErrors, log, cm, cur, orig, dest, ret, status>>
    /\ UNCHANGED <<prog, faulty, eager, tsr, loc>>
    /\ UNCHANGED envVars
    /\ UNCHANGED allocVars

InitP2P ==
    /\ InitWorld
    /\ LogErrors = TRUE
    /\ n = 0
    /\ alloc = [p \in AllProcs |-> NoAlloc]
    /\ cm = NoComm
    /\ cur \in {[NoVerb EXCEPT !.len = L, !.fill = 0 - 1] : L \in 1 .. MaxLen}
    /\ pc = [p \in AllProcs |-> "idle"]
    /\ orig = [p \in AllProcs |-> <<>>]
    /\ dest = [p \in AllProcs |-> <<>>]
    /\ vals = [p \in AllProcs |-> <<>>]
    /\ entry = [p \in AllProcs |-> NoEntry]
    /\ ret = [p \in AllProcs |-> Nil]
    /\ status = [p \in AllProcs |-> MPI_SUCCESS]
    /\ prog = NoProg
    /\ faulty = FALSE
    /\ p2p = [p \in AllProcs |-> NoP2P]
    /\ eager \in BOOLEAN
    /\ tsr = NoTsr
    /\ loc = [p \in AllProcs |-> NoLoc]
    /\ InitEnvIdle

NextP2P ==
    \/ \E p \in Procs, ranks \in RankLists : MpiNewComm(p, ranks)
    \/ \E p \in Procs : MpiCommCreate(p)
    \/ \E p \in Procs, ranks \in RankLists : DummyNewComm(p, ranks)
    \/ \E p \in Procs, verb \in P2PVerbs, peer \in AllProcs, tag \in Tags, v \in 0 .. MaxVal :
          CallP2P(p, verb, peer, tag, v)
    \/ \E p \in Procs : MpiSend(p)
    \/ \E p \in Procs : MpiRecv(p)
    \/ \E p \in Procs : MpiAbort(p)
    \/ \E p \in Procs : DummySend(p)
    \/ \E p \in Procs : DummyRecv(p)
    \/ \E p \in Procs : DummyAbort(p)

SpecP2P == InitP2P /\ [][NextP2P]_vars

(***************************************************************************)
(* empi.GatherTensorRows, GatherTensorRowsString and GatherTableRows.      *)
(* A tensor is one column of cells, a table a list of columns; orig[p]     *)
(* and dest[p] hold, per column, the Values of src and of dest.  A string  *)
(* is the sequence of its bytes.  A process runs from one AllGather to the *)
(* next: loc[p] says which column it is in (ci) and which collective (ph:  *)
(* "vals" the numeric all-gather, "lens" and "bytes" the two of a string   *)
(* column), which collectives it has entered, and the lengths it gathered. *)
(***************************************************************************)
Kinds == {"INT", "BOOL", "STRING"}
\* the schemas of the tables gathered
Schemas == {<<"INT">>, <<"STRING">>, <<"BOOL", "INT">>, <<"INT", "STRING">>}
ZeroOf(kind) == IF kind = "STRING" THEN <<>> ELSE 0
\* what a cell of a dest that was used before holds
StaleOf(kind) == IF kind = "STRING" THEN <<9>> ELSE 0 - 2
\* the string of k bytes process p contributes
StrOf(p, k) == [j \in 1 .. k |-> p + 1]
\* the cells of process p's src column of the given kind
SrcColumn(kind, p, v) ==
    IF kind = "STRING" THEN [i \in 1 .. tsr.rows |-> StrOf(p, v + i - 1)]
    ELSE Ramp(v, tsr.rows)
\* SetNumRows: the column cut or grown, with zero values, to the given rows
SetNumRows(values, rows, kind) ==
    [i \in 1 .. rows |-> IF i <= Len(values) THEN values[i] ELSE ZeroOf(kind)]
\* dest as the caller hands it in: d0 rows of earlier content
DestColumn(kind) == [i \in 1 .. tsr.d0 |-> StaleOf(kind)]

NCols == Len(tsr.kinds)
\* the first column from c on that issues a collective (a BOOL column issues none)
\* a slip: a BOOL column is dispatched like the numeric kinds
NextGather_BoolToo(c) == c
RECURSIVE NextGather(_)
NextGather(c) == IF c > NCols \/ tsr.kinds[c] # "BOOL" THEN c ELSE NextGather(c + 1)
PhaseOf(c) == IF tsr.kinds[c] = "STRING" THEN "lens" ELSE "vals"

\* comm.AllGather(d, src) with status ec: the stand-in and a failed call leave d as it
\* was, the transport writes every member's L elements by ascending rank
AllGatherOut(ec, src, L, d) ==
    IF mode = "dummy" \/ ec # MPI_SUCCESS THEN d
    ELSE [j \in 1 .. Len(d) |-> IF j <= Size * L THEN Tile(src, L)[j] ELSE d[j]]
\* column c of the src of process m (nothing before m has made its call)
SrcOf(m, c) == IF c <= Len(orig[m]) THEN orig[m][c] ELSE <<>>
\* every member has entered the collective ph of column c
AllIn(c, ph) == \A i \in 1 .. Len(Members) : <<c, ph>> \in loc[Members[i]].entered
\* process p is inside the collective ph; it may return with status ec
InGather(p, ph, ec) ==
    /\ tsr.call # "none" /\ pc[p] = "called" /\ loc[p].ph = ph
    /\ mode = "dummy" => ec = MPI_SUCCESS
    /\ (mode = "mpi" /\ ec = MPI_SUCCESS) => AllIn(loc[p].ci, ph)

Lens(strs) == [i \in 1 .. Len(strs) |-> Len(strs[i])]
RECURSIVE MaxInt(_, _)
MaxInt(sq, k) == IF k = 0 THEN 0
                 ELSE IF sq[k] > MaxInt(sq, k - 1) THEN sq[k] ELSE MaxInt(sq, k - 1)
\* sdt: every string copied at a stride of mxlen bytes, the rest zero
Padded(strs, mxlen) ==
    [k \in 1 .. Len(strs) * mxlen |->
        LET i == ((k - 1) \div mxlen) + 1
            j == ((k - 1) % mxlen) + 1
        IN  IF j <= Len(strs[i]) THEN strs[i][j] ELSE 0]
\* dest.Values from ddt: string i is the dln[i] bytes at its stride
Sliced(ddt, dln, mxlen) ==
    [i \in 1 .. Len(dln) |-> SubSeq(ddt, (i - 1) * mxlen + 1, (i - 1) * mxlen + dln[i])]

\* the gather of column c is over with error e.  GatherTensorRows returns e;
\* GatherTableRows drops it and goes on to the next column, and returns nothing.
ColumnDone(p, c, e, lc) ==
    LET nx == NextGather(c + 1)
    IN  IF nx > NCols
        THEN /\ pc' = [pc EXCEPT ![p] = "returned"]
             /\ ret' = [ret EXCEPT ![p] = IF tsr.call = "tensor" THEN e ELSE Nil]
             /\ loc' = [loc EXCEPT ![p] = [lc EXCEPT !.ph = "none"]]
        ELSE /\ pc' = pc
             /\ ret' = ret
             /\ loc' = [loc EXCEPT ![p] = [lc EXCEPT !.ci = nx, !.ph = PhaseOf(nx),
                                                     !.entered = @ \cup {<<nx, PhaseOf(nx)>>}]]

\* process p calls GatherTensorRows / GatherTableRows: dest gets np * rows rows,
\* np the World size, and p runs up to its first AllGather
CallGatherRows(p, v) ==
    /\ tsr.call # "none" /\ CommOkFor(p) /\ IsMember(p) /\ pc[p] = "idle"
    /\ orig' = [orig EXCEPT ![p] = [c \in 1 .. NCols |-> SrcColumn(tsr.kinds[c], p, v)]]
    /\ dest' = [dest EXCEPT ![p] = [c \in 1 .. NCols |->
                    SetNumRows(DestColumn(tsr.kinds[c]), WorldSize * tsr.rows, tsr.kinds[c])]]
    /\ entry' = [entry EXCEPT ![p] = [orig |-> orig'[p],
                    dest |-> [c \in 1 .. NCols |-> DestColumn(tsr.kinds[c])], vals |-> <<>>]]
    /\ LET nx == NextGather(1)
       IN  IF nx > NCols
           THEN /\ pc' = [pc EXCEPT ![p] = "returned"]
                /\ loc' = [loc EXCEPT ![p] = [NoLoc EXCEPT !.ci = nx]]
           ELSE /\ pc' = [pc EXCEPT ![p] = "called"]
                /\ loc' = [loc EXCEPT ![p] = [NoLoc EXCEPT !.ci = nx, !.ph = PhaseOf(nx),
                                                           !.entered = {<<nx, PhaseOf(nx)>>}]]
    /\ UNCHANGED <<mode, nproc, LogErrors, log, cm, cur, vals, ret, status>>
    /\ UNCHANGED <<prog, faulty, p2p, eager, tsr>>
    /\ UNCHANGED envVars
    /\ UNCHANGED allocVars

\* GatherTensorRows, numeric column: comm.AllGather(dt.Values, st.Values) returns
GatherTensorRows(p) ==
    \E ec \in Statuses :
        /\ InGather(p, "vals", ec)
        /\ LET c == loc[p].ci
               e == Error(ec, "AllGather")
           IN  /\ dest' = [dest EXCEPT ![p][c] =
                              AllGatherOut(ec, [m \in AllProcs |-> SrcOf(m, c)], tsr.rows, @)]
               /\ log' = [log EXCEPT ![p] = Logged(@, e)]
               /\ ColumnDone(p, c, e, [loc[p] EXCEPT !.sts = Append(@, ec)])
        /\ status' = [status EXCEPT ![p] = ec]
        /\ UNCHANGED <<mode, nproc, LogErrors, cm, cur, orig, vals, entry>>
        /\ UNCHANGED <<prog, faulty, p2p, eager, tsr>>
        /\ UNCHANGED envVars
        /\ UNCHANGED allocVars

\* a slip: the bytes go out even when every length is zero
GatherTensorRowsString_NoSkip(p) ==
    \E ec \in Statuses :
        /\ InGather(p, "lens", ec)
        /\ LET c == loc[p].ci
               e == Error(ec, "AllGatherInt")
               dln == AllGatherOut(ec, [m \in AllProcs |-> Lens(SrcOf(m, c))], tsr.rows,
                                   [i \in 1 .. Len(dest[p][c]) |-> 0])
               lc == [loc[p] EXCEPT !.sts = Append(@, ec), !.dln = dln]
           IN  /\ log' = [log EXCEPT ![p] = Logged(@, e)]
               /\ IF e # Nil
                  THEN ColumnDone(p, c, e, lc)
                  ELSE /\ loc' = [loc EXCEPT ![p] = [lc EXCEPT !.ph = "bytes",
                                                  !.entered = @ \cup {<<c, "bytes">>}]]
                       /\ UNCHANGED <<pc, ret>>
        /\ status' = [status EXCEPT ![p] = ec]
        /\ UNCHANGED <<mode, nproc, LogErrors, cm, cur, orig, dest, vals, entry>>
        /\ UNCHANGED <<prog, faulty, p2p, eager, tsr>>
        /\ UNCHANGED envVars
        /\ UNCHANGED allocVars

\* a slip: the maximum is taken over the process's own lengths
GatherTensorRowsString_LocalMax(p) ==
    \E ec \in Statuses :
        /\ InGather(p, "lens", ec)
        /\ LET c == loc[p].ci
               e == Error(ec, "AllGatherInt")
               dln == AllGatherOut(ec, [m \in AllProcs |-> Lens(SrcOf(m, c))], tsr.rows,
                                   [i \in 1 .. Len(dest[p][c]) |-> 0])
               lc == [loc[p] EXCEPT !.sts = Append(@, ec), !.dln = dln]
           IN  /\ log' = [log EXCEPT ![p] = Logged(@, e)]
               /\ IF e # Nil \/ MaxInt(Lens(SrcOf(p, c)), tsr.rows) = 0
                  THEN ColumnDone(p, c, e, lc)
                  ELSE /\ loc' = [loc EXCEPT ![p] = [lc EXCEPT !.ph = "bytes",
                                                  !.entered = @ \cup {<<c, "bytes">>}]]
                       /\ UNCHANGED <<pc, ret>>
        /\ status' = [status EXCEPT ![p] = ec]
        /\ UNCHANGED <<mode, nproc, LogErrors, cm, cur, orig, dest, vals, entry>>
        /\ UNCHANGED <<prog, faulty, p2p, eager, tsr>>
        /\ UNCHANGED envVars
        /\ UNCHANGED allocVars

\* GatherTensorRowsString: comm.AllGatherInt(dln, sln) returns; on an error the
\* error is returned, with every length zero nil is returned, else the bytes go out
GatherTensorRowsString(p) ==
    \E ec \in Statuses :
        /\ InGather(p, "lens", ec)
        /\ LET c == loc[p].ci
               e == Error(ec, "AllGatherInt")
               dln == AllGatherOut(ec, [m \in AllProcs |-> Lens(SrcOf(m, c))], tsr.rows,
                                   [i \in 1 .. Len(dest[p][c]) |-> 0])
               lc == [loc[p] EXCEPT !.sts = Append(@, ec), !.dln = dln]
           IN  /\ log' = [log EXCEPT ![p] = Logged(@, e)]
               /\ IF e # Nil \/ MaxInt(dln, Len(dln)) = 0
                  THEN ColumnDone(p, c, e, lc)
                  ELSE /\ loc' = [loc EXCEPT ![p] = [lc EXCEPT !.ph = "bytes",
                                                  !.entered = @ \cup {<<c, "bytes">>}]]
                       /\ UNCHANGED <<pc, ret>>
        /\ status' = [status EXCEPT ![p] = ec]
        /\ UNCHANGED <<mode, nproc, LogErrors, cm, cur, orig, dest, vals, entry>>
        /\ UNCHANGED <<prog, faulty, p2p, eager, tsr>>
        /\ UNCHANGED envVars
        /\ UNCHANGED allocVars

\* GatherTensorRowsString: comm.AllGatherU8(ddt, sdt) returns; dest.Values are
\* sliced out of ddt whatever the status, and the error is returned
GatherTensorRowsStringBytes(p) ==
    \E ec \in Statuses :
        /\ InGather(p, "bytes", ec)
        /\ LET c == loc[p].ci
               e == Error(ec, "AllGatherU8")
               dln == loc[p].dln
               mxlen == MaxInt(dln, Len(dln))
               ddt == AllGatherOut(ec, [m \in AllProcs |-> Padded(SrcOf(m, c), mxlen)],
                                   tsr.rows * mxlen,
                                   [k \in 1 .. Len(dest[p][c]) * mxlen |-> 0])
           IN  /\ dest' = [dest EXCEPT ![p][c] = Sliced(ddt, dln, mxlen)]
               /\ log' = [log EXCEPT ![p] = Logged(@, e)]
               /\ ColumnDone(p, c, e, [loc[p] EXCEPT !.sts = Append(@, ec)])
        /\ status' = [status EXCEPT ![p] = ec]
        /\ UNCHANGED <<mode, nproc, LogErrors, cm, cur, orig, vals, entry>>
        /\ UNCHANGED <<prog, faulty, p2p, eager, tsr>>
        /\ UNCHANGED envVars
        /\ UNCHANGED allocVars

\* the calls made: GatherTensorRows on a tensor of each kind, GatherTableRows on a table
RowCalls ==
    {[call |-> "tensor", kinds |-> <<k>>, rows |-> L, d0 |-> IF used THEN WorldSize * L ELSE 0] :
        k \in Kinds, L \in 1 .. MaxLen, used \in BOOLEAN}
    \cup {[call |-> "table", kinds |-> sc, rows |-> L, d0 |-> IF used THEN WorldSize * L ELSE 0] :
        sc \in Schemas, L \in 1 .. MaxLen, used \in BOOLEAN}

InitRows ==
    /\ InitWorld
    /\ LogErrors = TRUE
    /\ n = 0
    /\ alloc = [p \in AllProcs |-> NoAlloc]
    /\ InitCommIdle
    /\ prog = NoProg
    /\ faulty \in BOOLEAN
    /\ p2p = [p \in AllProcs |-> NoP2P]
    /\ eager = FALSE
    /\ tsr \in RowCalls
    /\ loc = [p \in AllProcs |-> NoLoc]
    /\ InitEnvIdle

NextRows ==
    \/ \E p \in Procs, ranks \in RankLists : MpiNewComm(p, ranks)
    \/ \E p \in Procs : MpiCommCreate(p)
    \/ \E p \in Procs, ranks \in RankLists : DummyNewComm(p, ranks)
    \/ \E p \in Procs, v \in 0 .. MaxVal : CallGatherRows(p, v)
    \/ \E p \in Procs : GatherTensorRows(p)
    \/ \E p \in Procs : GatherTensorRowsString(p)
    \/ \E p \in Procs : GatherTensorRowsStringBytes(p)

SpecRows == InitRows /\ [][NextRows]_vars

\* the members run on: a collective every member has entered returns
FairRows ==
    \A p \in AllProcs :
        /\ WF_vars(GatherTensorRows(p))
        /\ WF_vars(GatherTensorRowsString(p))
        /\ WF_vars(GatherTensorRowsStringBytes(p))

SpecRowsFair == InitRows /\ [][NextRows]_vars /\ FairRows

(***************************************************************************)
(* The program of Spec on a transport that may fail: every transport call  *)
(* of NewComm and of the verb reports any status.  The buffers are short:  *)
(* what is looked at is the error that comes back.                         *)
(***************************************************************************)
InitFault ==
    /\ InitWorld
    /\ LogErrors \in BOOLEAN
    /\ n = 0
    /\ alloc = [p \in AllProcs |-> NoAlloc]
    /\ cm = NoComm
    /\ cur \in {c \in VerbCalls : c.len <= 1 /\ c.fill = 0}
    /\ mode = "mpi" => cur.verb \in Collectives
    /\ pc = [p \in AllProcs |-> "idle"]
    /\ orig = [p \in AllProcs |-> <<>>]
    /\ dest = [p \in AllProcs |-> <<>>]
    /\ vals = [p \in AllProcs |-> <<>>]
    /\ entry = [p \in AllProcs |-> NoEntry]
    /\ ret = [p \in AllProcs |-> Nil]
    /\ status = [p \in AllProcs |-> MPI_SUCCESS]
    /\ prog = NoProg
    /\ faulty = TRUE
    /\ p2p = [p \in AllProcs |-> NoP2P]
    /\ eager = FALSE
    /\ tsr = NoTsr
    /\ loc = [p \in AllProcs |-> NoLoc]
    /\ InitEnvIdle

SpecFault == InitFault /\ [][Next]_vars

(***************************************************************************)
(* mpi.Printf, Println, AllPrintf and AllPrintln.  A written line is the   *)
(* function that wrote it, the prefix put before the format (the ranks of  *)
(* "P%d: ", none when there is no prefix) and the format.                  *)
(***************************************************************************)
\* most Printf-family calls a process makes
MaxCalls == 2
\* fs with "P%d: " of the World rank before it
Prefixed(p, fs) == [pre |-> <<WorldRank(p)>>, fs |-> fs]
Plain(fs) == [pre |-> <<>>, fs |-> fs]
Written(p, by, line) ==
    [calls |-> prt[p].calls + 1, out |-> Append(prt[p].out, [by |-> by, pre |-> line.pre, fs |-> line.fs])]
Silent(p) == [prt[p] EXCEPT !.calls = @ + 1]

PrintStep(p, new) ==
    /\ prt[p].calls < MaxCalls
    /\ prt' = [prt EXCEPT ![p] = new]
    /\ UNCHANGED <<mode, nproc, LogErrors, log, status, PrintAllProcs, fcfg, ft>>
    /\ UNCHANGED <<prog, faulty, p2p, eager, tsr, loc>>
    /\ UNCHANGED allocVars
    /\ UNCHANGED commVars

\* a slip: the rank is not looked at, every process prints
Printf_Ungated(p, fs) ==
    PrintStep(p, Written(p, "Printf", IF WorldRank(p) > 0 THEN Prefixed(p, fs) ELSE Plain(fs)))

Printf(p, fs) ==
    PrintStep(p, IF ~PrintAllProcs /\ WorldRank(p) > 0 THEN Silent(p)
                 ELSE Written(p, "Printf", IF WorldRank(p) > 0 THEN Prefixed(p, fs) ELSE Plain(fs)))

Println(p, fs) ==
    PrintStep(p, IF ~PrintAllProcs /\ WorldRank(p) > 0 THEN Silent(p)
                 ELSE Written(p, "Println", IF WorldRank(p) > 0 THEN Prefixed(p, fs) ELSE Plain(fs)))

AllPrintf(p, fs) == PrintStep(p, Written(p, "AllPrintf", Prefixed(p, fs)))
AllPrintln(p, fs) == PrintStep(p, Written(p, "AllPrintln", Prefixed(p, fs)))

Formats == {"fs"}

InitPrint ==
    /\ InitWorld
    /\ LogErrors = TRUE
    /\ n = 0
    /\ alloc = [p \in AllProcs |-> NoAlloc]
    /\ InitCommIdle
    /\ prog = NoProg
    /\ faulty = FALSE
    /\ p2p = [p \in AllProcs |-> NoP2P]
    /\ eager = FALSE
    /\ tsr = NoTsr
    /\ loc = [p \in AllProcs |-> NoLoc]
    /\ PrintAllProcs \in BOOLEAN
    /\ prt = [p \in AllProcs |-> NoPrt]
    /\ fcfg = NoCfg
    /\ ft = [p \in AllProcs |-> NoFt]

NextPrint ==
    \/ \E p \in Procs, fs \in Formats : Printf(p, fs)
    \/ \E p \in Procs, fs \in Formats : Println(p, fs)
    \/ \E p \in Procs, fs \in Formats : AllPrintf(p, fs)
    \/ \E p \in Procs, fs \in Formats : AllPrintln(p, fs)

SpecPrint == InitPrint /\ [][NextPrint]_vars

(***************************************************************************)
(* empi.FixedTable: Init, NewOrder, PermuteOrder, Row, Step and State.     *)
(* The table has n rows and its indexed view lists them in order; it has   *)
(* the column "Input" and those of fcfg.cols.  env.Ctr is the counter of   *)
(* emergent/env: Incr adds one and, when Max > 0 and the counter has       *)
(* reached Max, resets it to 0 and returns true.  The random generator     *)
(* draws any permutation; what it draws is a function of its state and of  *)
(* the call that draws (rand.Perm in NewOrder, the shuffle of              *)
(* erand.PermuteInts in PermuteOrder), and each call leaves the generator  *)
(* in a state of its own.  All ranks are seeded alike, so the state of a   *)
(* rank's generator is the sequence of the draws it has made, ft[p].rng,   *)
(* and ranks that made the same sequence of calls drew the same            *)
(* permutations: fcfg.draws keeps, for every sequence of calls made by     *)
(* some rank, the permutation its last call drew.                          *)
(***************************************************************************)
\* most Steps a rank takes
MaxSteps == 4
\* most rows of the table a FixedTable runs over
MaxRows == 3
\* most lines in a process's log for State to add one
MaxLog == 1
\* most calls of NewOrder and PermuteOrder the processes make themselves, outside
\* Init and Step
MaxDirect == 1

CtrInit(ct) == [ct EXCEPT !.Prv = 0 - 1, !.Cur = 0, !.Chg = FALSE]
CtrSame(ct) == [ct EXCEPT !.Chg = FALSE]
\* does Incr return true: the counter hit Max
CtrHitMax(ct) == ct.Max > 0 /\ ct.Cur + 1 >= ct.Max
CtrIncr(ct) ==
    [ct EXCEPT !.Chg = TRUE, !.Prv = ct.Cur, !.Cur = IF CtrHitMax(ct) THEN 0 ELSE ct.Cur + 1]

\* the permutations of 0 .. N-1: what rand.Perm(N) may return
Perms(N) == {s \in [1 .. N -> 0 .. (N - 1)] : \A i, j \in 1 .. N : s[i] = s[j] => i = j}
\* the calls that draw from the generator
Perm == "rand.Perm"
Permute == "erand.PermuteInts"
\* what a rank drew before with the sequence h of calls
Known(h) == {d \in fcfg.draws : d.hist = h}
\* sigma is what the last call of the sequence h draws
Drawn(h, sigma) ==
    IF Known(h) # {} THEN \E d \in Known(h) : sigma = d.sigma ELSE sigma \in Perms(n)
\* the draws once the last call of h has drawn sigma
Drawing(h, sigma) == fcfg.draws \cup {[hist |-> h, sigma |-> sigma]}
\* erand.PermuteInts: shuffle ord in place by the permutation drawn
PermuteInts(ord, sigma) == [i \in 1 .. Len(ord) |-> ord[sigma[i] + 1]]
\* Table.Idxs of the indexed view
Idxs == [i \in 1 .. n |-> i - 1]
\* the columns of the table
Columns == {"Input"} \cup fcfg.cols
\* the elements asked of State
Elements == {"Input", "Output"}

OrderErr == [text |-> "mpi.FixedTable: number of table rows is not an even multiple of number of MPI procs", code |-> 0, msg |-> <<>>]
\* the error of Table.CellTensorTry for a column the table has not
StateErr == [text |-> "etable.Table ColByNameTry: column not found", code |-> 0, msg |-> <<>>]

NewOrder(f, p, sigma) ==
    LET np == n
        pt == GoDiv(np, WorldSize)
        st == pt * WorldRank(p)
    IN  [f EXCEPT !.Order = sigma, !.rng = Append(f.rng, Perm),
                  !.TrialSt = st, !.TrialEd = st + pt, !.Trial.Max = st + pt]

PermuteOrder(f, sigma) ==
    [f EXCEPT !.Order = PermuteInts(f.Order, sigma), !.rng = Append(f.rng, Permute)]

\* Row: the table row of the current trial; indexing out of range panics
RowInRange(f) ==
    /\ f.Trial.Cur \in 0 .. (n - 1)
    /\ ~fcfg.Sequential => f.Order[f.Trial.Cur + 1] \in 0 .. (n - 1)
Row(f) ==
    IF fcfg.Sequential THEN Idxs[f.Trial.Cur + 1] ELSE Idxs[f.Order[f.Trial.Cur + 1] + 1]
\* SetTrialName / SetGroupName: Row() is read only when the table has the column
SetName(f, col) ==
    IF f.panic \/ col \notin fcfg.cols THEN f
    ELSE IF RowInRange(f) THEN [f EXCEPT !.row = Row(f)]
    ELSE [f EXCEPT !.panic = TRUE]
\* Step's ft.SetTrialName() and then ft.SetGroupName()
SetNames(f) == SetName(SetName(f, "Name"), "Group")
\* shown keeps the rows the Steps made current, each with its epoch
Presented(f) ==
    IF RowInRange(f) THEN [f EXCEPT !.shown = Append(@, [ep |-> f.Epoch.Cur, row |-> Row(f)])]
    ELSE f

FtFrame ==
    /\ UNCHANGED <<mode, nproc, LogErrors, status, PrintAllProcs, prt>>
    /\ UNCHANGED <<prog, faulty, p2p, eager, tsr, loc>>
    /\ UNCHANGED <<n, alloc>>
    /\ UNCHANGED commVars

FtInit(p) ==
    /\ ~ft[p].inited
    /\ \E sigma \in Perms(n) :
          /\ Drawn(Append(ft[p].rng, Perm), sigma)
          /\ LET f0 == [ft[p] EXCEPT !.inited = TRUE,
                                     !.Run = [CtrInit(@) EXCEPT !.Cur = fcfg.run],
                                     !.Epoch = CtrInit(@), !.Trial = CtrInit(@)]
                 f1 == NewOrder(f0, p, sigma)
             IN  ft' = [ft EXCEPT ![p] = [f1 EXCEPT !.Trial.Cur = f1.TrialSt - 1]]
          /\ fcfg' = [fcfg EXCEPT !.draws = Drawing(Append(ft[p].rng, Perm), sigma)]
    /\ log' = [log EXCEPT ![p] = IF GoMod(n, WorldSize) # 0 THEN Append(@, OrderErr) ELSE @]
    /\ FtFrame

Step(p) ==
    /\ ft[p].inited /\ ~ft[p].panic
    /\ ft[p].steps < MaxSteps
    /\ LET f0 == [ft[p] EXCEPT !.Epoch = CtrSame(@), !.steps = @ + 1]
           f1 == [f0 EXCEPT !.Trial = CtrIncr(@)]
       IN  IF CtrHitMax(f0.Trial)
           THEN \E sigma \in Perms(n) :
                   /\ Drawn(Append(f1.rng, Permute), sigma)
                   /\ ft' = [ft EXCEPT ![p] =
                               SetNames(Presented([PermuteOrder(f1, sigma) EXCEPT !.Epoch = CtrIncr(@)]))]
                   /\ fcfg' = [fcfg EXCEPT !.draws = Drawing(Append(f1.rng, Permute), sigma)]
           ELSE /\ ft' = [ft EXCEPT ![p] = SetNames(Presented(f1))]
                /\ fcfg' = fcfg
    /\ UNCHANGED log
    /\ FtFrame

\* the calls of NewOrder and PermuteOrder made so far outside Init and Step
RECURSIVE DirectsUpTo(_)
DirectsUpTo(p) == IF p < 0 THEN 0 ELSE ft[p].direct + DirectsUpTo(p - 1)
Directs == DirectsUpTo(MaxProcs - 1)

\* NewOrder(), called by the program itself: a new Order from the generator
CallNewOrder(p) ==
    /\ ft[p].inited /\ ~ft[p].panic /\ Directs < MaxDirect
    /\ \E sigma \in Perms(n) :
          /\ Drawn(Append(ft[p].rng, Perm), sigma)
          /\ ft' = [ft EXCEPT ![p] = [NewOrder(ft[p], p, sigma) EXCEPT !.direct = @ + 1]]
          /\ fcfg' = [fcfg EXCEPT !.draws = Drawing(Append(ft[p].rng, Perm), sigma)]
    /\ log' = [log EXCEPT ![p] = IF GoMod(n, WorldSize) # 0 THEN Append(@, OrderErr) ELSE @]
    /\ FtFrame

\* PermuteOrder(), called by the program itself
CallPermuteOrder(p) ==
    /\ ft[p].inited /\ ~ft[p].panic /\ Directs < MaxDirect
    /\ \E sigma \in Perms(n) :
          /\ Drawn(Append(ft[p].rng, Permute), sigma)
          /\ ft' = [ft EXCEPT ![p] = [PermuteOrder(ft[p], sigma) EXCEPT !.direct = @ + 1]]
          /\ fcfg' = [fcfg EXCEPT !.draws = Drawing(Append(ft[p].rng, Permute), sigma)]
    /\ UNCHANGED log
    /\ FtFrame

\* SetTrialName(), called by the program itself
SetTrialName(p) ==
    /\ ft[p].inited /\ ~ft[p].panic
    /\ ft' = [ft EXCEPT ![p] = SetName(ft[p], "Name")]
    /\ UNCHANGED <<log, fcfg>>
    /\ FtFrame

\* SetGroupName(), called by the program itself
SetGroupName(p) ==
    /\ ft[p].inited /\ ~ft[p].panic
    /\ ft' = [ft EXCEPT ![p] = SetName(ft[p], "Group")]
    /\ UNCHANGED <<log, fcfg>>
    /\ FtFrame

\* State(element): the cell of the current row; Row() may panic, and a
\* column the table has not is logged
State(p, el) ==
    /\ ft[p].inited /\ ~ft[p].panic
    /\ IF ~RowInRange(ft[p])
       THEN /\ ft' = [ft EXCEPT ![p].panic = TRUE]
            /\ log' = log
       ELSE /\ el \notin Columns => Len(log[p]) < MaxLog
            /\ ft' = ft
            /\ log' = [log EXCEPT ![p] = IF el \in Columns THEN @ ELSE Append(@, StateErr)]
    /\ UNCHANGED fcfg
    /\ FtFrame

InitFixed ==
    /\ InitWorld
    /\ LogErrors = TRUE
    /\ n \in {k \in 1 .. MaxRows : GoMod(k, WorldSize) = 0}
    /\ alloc = [p \in AllProcs |-> NoAlloc]
    /\ InitCommIdle
    /\ prog = NoProg
    /\ faulty = FALSE
    /\ p2p = [p \in AllProcs |-> NoP2P]
    /\ eager = FALSE
    /\ tsr = NoTsr
    /\ loc = [p \in AllProcs |-> NoLoc]
    /\ PrintAllProcs = FALSE
    /\ prt = [p \in AllProcs |-> NoPrt]
    /\ fcfg \in [run : {0}, Sequential : BOOLEAN, cols : SUBSET {"Name", "Group"}, draws : {{}}]
    /\ ft = [p \in AllProcs |-> NoFt]

NextFixed ==
    \/ \E p \in Procs : FtInit(p)
    \/ \E p \in Procs : Step(p)
    \/ \E p \in Procs, el \in Elements : State(p, el)
    \/ \E p \in Procs : CallNewOrder(p)
    \/ \E p \in Procs : CallPermuteOrder(p)
    \/ \E p \in Procs : SetTrialName(p)
    \/ \E p \in Procs : SetGroupName(p)

SpecFixed == InitFixed /\ [][NextFixed]_vars

(***************************************************************************)
(* The two partitioning helpers side by side: a program that calls         *)
(* AllocN(n), sets up a FixedTable over a table of n rows with Init, and   *)
(* may call NewOrder again, SetTrialName and State.                        *)
(***************************************************************************)
InitImbalance ==
    /\ InitWorld
    /\ LogErrors \in BOOLEAN
    /\ n \in 0 .. MaxRows
    /\ alloc = [p \in AllProcs |-> NoAlloc]
    /\ InitCommIdle
    /\ prog = NoProg
    /\ faulty = FALSE
    /\ p2p = [p \in AllProcs |-> NoP2P]
    /\ eager = FALSE
    /\ tsr = NoTsr
    /\ loc = [p \in AllProcs |-> NoLoc]
    /\ PrintAllProcs = FALSE
    /\ prt = [p \in AllProcs |-> NoPrt]
    /\ fcfg \in [run : {0}, Sequential : BOOLEAN, cols : {{}, {"Name", "Group"}}, draws : {{}}]
    /\ ft = [p \in AllProcs |-> NoFt]

NextImbalance ==
    \/ \E p \in Procs : CallAllocN(p)
    \/ \E p \in Procs : FtInit(p)
    \/ \E p \in Procs : CallNewOrder(p)
    \/ \E p \in Procs : SetTrialName(p)
    \/ \E p \in Procs, el \in Elements : State(p, el)

SpecImbalance == InitImbalance /\ [][NextImbalance]_vars

(***************************************************************************)
(* Claims about AllocN, checked under SpecAlloc.                           *)
(***************************************************************************)
\* the half-open range [st, end) a process was given
Range(p) == {i \in 0 .. MaxN : alloc[p].st <= i /\ i < alloc[p].end}
AllAllocated == \A p \in Procs : alloc[p].called

\* C3: when n mod size = 0, the ranges AllocN(n) returns on ranks 0..size-1
\* are pairwise disjoint, each of length n/size, their union is exactly
\* [0, n), and every rank gets a nil error.
C3_AllocCoverage ==
    (n % WorldSize = 0) =>
        /\ \A p \in Procs : alloc[p].called =>
              /\ alloc[p].err = Nil
              /\ alloc[p].end - alloc[p].st = n \div WorldSize
              /\ 0 <= alloc[p].st /\ alloc[p].end <= n
        /\ \A p, q \in Procs :
              (alloc[p].called /\ alloc[q].called /\ p # q) => Range(p) \cap Range(q) = {}
        /\ AllAllocated => UNION {Range(p) : p \in Procs} = 0 .. (n - 1)

\* C3's case: several ranks, a positive multiple of the size, all have returned
C3_Witness ==
    /\ mode = "mpi" /\ nproc >= 2 /\ n >= 2 * nproc /\ n % nproc = 0
    /\ AllAllocated
    /\ alloc[1].st = n \div nproc

\* C4: when n mod size # 0, AllocN(n) on rank r returns (it does not abort)
\* a non-nil error together with the floor-divided range st = (n div size)*r,
\* end = st + (n div size); the error is nil exactly when n mod size = 0.
C4_AllocImbalance ==
    \A p \in Procs : alloc[p].called =>
        /\ (alloc[p].err = Nil) <=> (n % WorldSize = 0)
        /\ (n % WorldSize # 0) =>
              /\ alloc[p].err # Nil
              /\ alloc[p].st = (n \div WorldSize) * WorldRank(p)
              /\ alloc[p].end = alloc[p].st + (n \div WorldSize)

\* C4's example: n = 7 on 2 procs gives [0,3) and [3,6), index 6 uncovered
C4_Witness ==
    /\ n = 7 /\ WorldSize = 2 /\ AllAllocated
    /\ alloc[0].err # Nil /\ alloc[1].err # Nil
    /\ Range(0) = 0 .. 2 /\ Range(1) = 3 .. 5
    /\ 6 \notin UNION {Range(p) : p \in Procs}

(***************************************************************************)
(* Claims about the communicator verbs, checked under Spec.                *)
(***************************************************************************)

\* C1: whatever the order in which the members entered AllGather(dest, src),
\* once the call has returned on a member its dest holds rank r's src
\* verbatim at offset r * len(src), for every rank r of the communicator.
C1_AllGatherOrdering ==
    cur.verb = "AllGather" =>
        \A p \in Procs : Returned(p) =>
            /\ Len(dest[p]) = Size * cur.len
            /\ \A r \in 0 .. (Size - 1), i \in 1 .. cur.len :
                  dest[p][r * cur.len + i] = entry[ProcOf(r)].orig[i]

\* C2: once AllReduce(op, dest, src) has returned on all members, every
\* member's dest is the element-wise op of all members' src, and src is
\* unchanged.
C2_AllReduceResult ==
    (cur.verb = "AllReduce" /\ AllReturned) =>
        \A i \in 1 .. Len(Members) :
            /\ dest[Members[i]] = Combined
            /\ orig[Members[i]] = entry[Members[i]].orig

\* C5: in the dummy build, once Reduce, AllReduce, Gather, AllGather or
\* Scatter has returned, dest holds a copy of src, whatever dest held.
C5_StandInIdentity ==
    (mode = "dummy" /\ UsesDest(cur.verb)) =>
        \A p \in Procs : Returned(p) =>
            /\ dest[p] = entry[p].orig
            /\ orig[p] = entry[p].orig

\* what the mpi build leaves in the buffers of member p for the same call
ActiveDest(p) ==
    CASE cur.verb = "Reduce" -> ReduceDest(p)
      [] cur.verb = "AllReduce" -> AllReduceDest(p)
      [] cur.verb = "Gather" -> GatherDest(p)
      [] cur.verb = "AllGather" -> AllGatherDest(p)
      [] cur.verb = "Scatter" -> ScatterDest(p)
      [] OTHER -> entry[p].dest
ActiveVals(p) == IF cur.verb = "Bcast" THEN BcastVals(p) ELSE entry[p].vals

\* C6: on a communicator of size 1, every collective verb run from the same
\* buffers ends with the same dest / vals and the same nil error in the
\* dummy build as in the mpi build.
C6_ModeEquivalence ==
    (mode = "dummy" /\ cur.verb \in Collectives /\ cur.root < Size) =>
        \A p \in Procs : Returned(p) =>
            /\ dest[p] = ActiveDest(p)
            /\ vals[p] = ActiveVals(p)
            /\ ret[p] = Nil

\* C7: in the dummy build Send and Recv (any rank, tag and buffer), Barrier
\* and Abort return nil at once, with no peer call to wait for, and leave
\* vals as it was.
C7_StandInPointToPoint ==
    (mode = "dummy" /\ cur.verb \in {"Send", "Recv", "Barrier", "Abort"}) =>
        \A p \in Procs :
            /\ pc[p] = "called" =>
                  ENABLED (DummySend(p) \/ DummyRecv(p) \/ DummyBarrier(p) \/ DummyAbort(p))
            /\ pc[p] = "returned" => (ret[p] = Nil /\ vals[p] = entry[p].vals)

\* C7's case: Send to a rank that does not exist has returned nil
C7_Witness ==
    /\ mode = "dummy" /\ cm.made /\ cm.ranks = <<>>
    /\ cur.verb = "Send" /\ cur.root = 1 /\ cur.tag = 1
    /\ pc[0] = "returned" /\ ret[0] = Nil /\ Len(vals[0]) = MaxLen

\* C8: in the dummy build every communicator, whatever rank list it was made
\* from, reports Rank() = 0 and Size() = 1, and WorldRank() = 0 and
\* WorldSize() = 1.
C8_StandInRankSize ==
    mode = "dummy" =>
        /\ WorldSize = 1 /\ Size = 1
        /\ \A p \in Procs : WorldRank(p) = 0 /\ Rank(p) = 0

\* C8's case: a communicator made from a list of two ranks
C8_Witness == mode = "dummy" /\ cm.made /\ Len(cm.ranks) = 2 /\ Size = 1 /\ pc[0] = "returned"

\* C9: once Bcast(fromRank, values) has returned on a member, its values are
\* what fromRank's buffer held when fromRank entered the call; fromRank's
\* own buffer is unchanged.
C9_BcastPost ==
    (cur.verb = "Bcast" /\ cur.root < Size) =>
        \A p \in Procs : Returned(p) =>
            /\ vals[p] = entry[ProcOf(cur.root)].vals
            /\ Rank(p) = cur.root => vals[p] = entry[p].vals

\* C9's case: two members, the broadcast comes from rank 1 and differs from
\* what rank 0 held
C9_Witness ==
    /\ mode = "mpi" /\ cur.verb = "Bcast" /\ Size = 2 /\ cur.root = 1 /\ AllReturned
    /\ entry[ProcOf(0)].vals # entry[ProcOf(1)].vals
    /\ vals[ProcOf(0)] = entry[ProcOf(1)].vals

\* C10: once Reduce(toRank, op, dest, src) has returned on all members, dest
\* on toRank is the element-wise op of every member's src, and dest on every
\* other rank is as it was.
C10_ReducePost ==
    (cur.verb = "Reduce" /\ cur.root < Size /\ AllReturned) =>
        \A i \in 1 .. Len(Members) :
            dest[Members[i]] = IF i - 1 = cur.root THEN Combined ELSE entry[Members[i]].dest

(***************************************************************************)
(* Claims about the Scatter-then-Gather program, checked under             *)
(* SpecScatterGather.                                                      *)
(***************************************************************************)
\* C11: on a communicator of size k, with B of length k*m held by rank f,
\* Scatter(f, dest, B) leaves chunk i of B in rank i's dest, and the
\* following Gather(f, out, dest) leaves out on rank f equal to B.
C11_ScatterGatherInverse ==
    (cur.verb = "Scatter" /\ cur.root < Size) =>
        /\ \A p \in Procs : (prog[p].step = 0 /\ Returned(p) /\ ret[p] = Nil) =>
              dest[p] = [i \in 1 .. cur.len |->
                            FirstOrig(ProcOf(cur.root))[Rank(p) * cur.len + i]]
        /\ \A p \in Procs :
              (prog[p].step = 1 /\ Returned(p) /\ ret[p] = Nil /\ Rank(p) = cur.root) =>
                  dest[p] = prog[p].B

\* the same, for the transport-backed build alone
C11_MpiScatterGather == mode = "mpi" => C11_ScatterGatherInverse

\* two members, rank 1 holds B, and its Gather has returned B while rank 0
\* is still in its Gather
C11_MpiWitness ==
    /\ mode = "mpi" /\ cm.made /\ Size = 2 /\ cur.root = 1 /\ cur.len = 2
    /\ prog[ProcOf(1)].step = 1 /\ Returned(ProcOf(1)) /\ ret[ProcOf(1)] = Nil
    /\ prog[ProcOf(0)].step = 1 /\ pc[ProcOf(0)] = "called" /\ ret[ProcOf(0)] = Nil
    /\ dest[ProcOf(1)] = prog[ProcOf(1)].B /\ cur.fill # dest[ProcOf(1)][1]

(***************************************************************************)
(* Claims about Barrier, checked under SpecBarrier.                        *)
(***************************************************************************)
\* C12: on a communicator of size k no member's Barrier() returns (with a
\* nil error) before all k members have entered Barrier(), and once all k
\* members have called Barrier() every call eventually returns.
C12_BarrierSync ==
    /\ [](\A p \in AllProcs : (Returned(p) /\ ret[p] = Nil) => AllEntered)
    /\ (CommOk /\ AllEntered) ~> AllReturned

\* two members, the transport is sound, and both are back from Barrier
C12_Witness ==
    /\ mode = "mpi" /\ Size = 2 /\ ~faulty /\ cur.verb = "Barrier"
    /\ AllReturned /\ \A p \in Procs : ret[p] = Nil

(***************************************************************************)
(* Claims about Send and Recv, checked under SpecP2P.                      *)
(***************************************************************************)
\* the Recv of q has its Send: the rank it names has issued Send(q, tag, vals)
HasSend(q) == p2p[q].peer < Size /\ Pairs(Peer(q), q) /\ Entered(Peer(q))
\* the Send of p has its Recv: the rank it names has issued Recv(p, tag, buf)
HasRecv(p) == p2p[p].peer < Size /\ Pairs(p, Peer(p)) /\ Entered(Peer(p))
\* the call of p waits for a peer call that has not been issued
Unpaired(p) ==
    /\ pc[p] = "called"
    /\ \/ p2p[p].verb = "Recv" /\ ~HasSend(p)
       \/ p2p[p].verb = "Send" /\ ~eager /\ ~HasRecv(p)

\* the pairing, for process q
PairedReturn(q) ==
    /\ (Returned(q) /\ p2p[q].verb = "Recv") =>
          HasSend(q) /\ vals[q] = entry[Peer(q)].vals
    /\ (Returned(q) /\ p2p[q].verb = "Send" /\ ~eager) => HasRecv(q)

\* C13 as stated: a Recv(fromRank, tag, buf) on rank q returns only after
\* rank fromRank has issued Send(q, tag, vals) with the same tag on the
\* communicator, and then buf equals vals; a Recv (or rendezvous Send)
\* whose peer call has not been issued does not return: it stays in the
\* call unless Abort ends the job.
C13_SendRecvPairing ==
    /\ [](\A q \in Procs : PairedReturn(q))
    /\ [][\A q \in Procs : Unpaired(q) => pc'[q] \in {"called", "aborted"}]_vars

\* C13, amended: the same, in the transport-backed build
C13_MpiSendRecvPairing ==
    /\ [](mode = "mpi" => \A q \in Procs : PairedReturn(q))
    /\ [][mode = "mpi" => \A q \in Procs : Unpaired(q) => pc'[q] \in {"called", "aborted"}]_vars

\* rank 1 has received, under tag 1, what rank 0 sent it by a rendezvous Send
C13_Witness ==
    /\ mode = "mpi" /\ Size = 2 /\ ~eager /\ AllReturned
    /\ p2p[ProcOf(0)] = [verb |-> "Send", peer |-> 1, tag |-> 1]
    /\ p2p[ProcOf(1)] = [verb |-> "Recv", peer |-> 0, tag |-> 1]
    /\ vals[ProcOf(1)] = entry[ProcOf(0)].vals /\ vals[ProcOf(1)] # entry[ProcOf(1)].vals

(***************************************************************************)
(* Claims about the row gathers, checked under SpecRows.                   *)
(***************************************************************************)
\* every transport call process p made in its gather succeeded
NoFailure(p) == \A i \in 1 .. Len(loc[p].sts) : loc[p].sts[i] = MPI_SUCCESS
\* column c of p's dest is the members' rows, tiled by rank
RowsPlaced(p, c) ==
    /\ Len(dest[p][c]) = Size * tsr.rows
    /\ \A r \in 0 .. (Size - 1), i \in 1 .. tsr.rows :
          dest[p][c][r * tsr.rows + i] = orig[ProcOf(r)][c][i]

\* C14: when every member of comm (World or a rank subset) calls
\* GatherTensorRows (or GatherTableRows) with the same schema and L local
\* rows, then on return dest has size * L rows, size the number of members
\* of comm, and rows [r*L, (r+1)*L) are the rows rank r contributed.
C14_RowTiledLayout ==
    \A p \in Procs :
        (tsr.call # "none" /\ Returned(p) /\ ret[p] = Nil /\ NoFailure(p)) =>
            \A c \in 1 .. NCols : tsr.kinds[c] = "INT" => RowsPlaced(p, c)

\* the same, in the transport-backed build on the World communicator
C14_MpiWorldLayout == (mode = "mpi" /\ cm.ranks = <<>>) => C14_RowTiledLayout

\* the strings of p's dest are the members' strings, rank by rank
StringsPlaced(p) ==
    \A r \in 0 .. (Size - 1), i \in 1 .. tsr.rows :
        /\ r * tsr.rows + i <= Len(dest[p][1])
        /\ dest[p][1][r * tsr.rows + i] = orig[ProcOf(r)][1][i]

\* C15: for every number of ranks, every initial content of dest and every
\* assignment of strings (empty ones and all-empty inputs included), after
\* GatherTensorRowsString returns nil, dest element r*len(src.Values)+i is
\* the i-th string rank r contributed.
C15_StringRoundTrip ==
    \A p \in Procs :
        (tsr.call = "tensor" /\ tsr.kinds = <<"STRING">> /\ Returned(p) /\ ret[p] = Nil) =>
            StringsPlaced(p)

\* the same, in the transport-backed build, when dest comes in empty or
\* some string is not empty
C15_MpiNonEmptyRoundTrip ==
    \A p \in Procs :
        (/\ mode = "mpi" /\ tsr.call = "tensor" /\ tsr.kinds = <<"STRING">>
         /\ Returned(p) /\ ret[p] = Nil
         /\ tsr.d0 = 0 \/ MaxInt(loc[p].dln, Len(loc[p].dln)) > 0) =>
            StringsPlaced(p)

\* C16: when the transport all-gather fails for a column during
\* GatherTableRows, the failure is returned to the caller of the table
\* gather.
C16_TableGatherError ==
    \A p \in Procs :
        (tsr.call = "table" /\ pc[p] = "returned" /\ ~NoFailure(p)) => ret[p] # Nil

\* GatherTensorRows does return the failure of its all-gather
C16_TensorGatherError ==
    \A p \in Procs :
        (tsr.call = "tensor" /\ pc[p] = "returned" /\ ~NoFailure(p)) => ret[p] # Nil

(***************************************************************************)
(* Claims about transport failures, checked under SpecFault.               *)
(***************************************************************************)
\* the error e carries the status ec and a call name
Carries(e, ec) == e # Nil /\ e.code = ec /\ e.text # "nil"
\* a verb whose transport call reported a nonzero status returned it
VerbFailureReturned ==
    \A p \in Procs : (pc[p] = "returned" /\ status[p] # MPI_SUCCESS) => Carries(ret[p], status[p])
\* NewComm, one of whose transport calls reported a nonzero status, returned an error
NewCommFailureReturned ==
    \A p \in Procs :
        (cm.at[p] = "done" /\ \E i \in 1 .. Len(cm.sts[p]) : cm.sts[p][i] # MPI_SUCCESS) =>
            \E i \in 1 .. Len(cm.sts[p]) : Carries(cm.err[p], cm.sts[p][i])

\* C17: every transport call that reports a nonzero status makes the
\* operation that issued it return a non-nil error carrying the code and
\* the operation name, for every operation, NewComm on a rank subset
\* included: no nonzero status is discarded.
C17_FailuresReturned == VerbFailureReturned /\ NewCommFailureReturned

\* the same, for the verbs and for NewComm(nil)
C17_VerbsAndWorld == VerbFailureReturned /\ (cm.ranks = <<>> => NewCommFailureReturned)

(***************************************************************************)
(* Claims about Printf and Println, checked under SpecPrint.               *)
(***************************************************************************)
\* the lines process p wrote through Printf and Println
Gated(p) == {i \in 1 .. Len(prt[p].out) : prt[p].out[i].by \in {"Printf", "Println"}}
\* the calls of Printf and Println process p made
GatedCalls(p) == prt[p].calls - (Len(prt[p].out) - Cardinality(Gated(p)))

\* with PrintAllProcs false only rank 0 writes; with it true every rank writes
OnlyRankZeroUnlessAll ==
    \A p \in Procs :
        Cardinality(Gated(p)) = IF PrintAllProcs \/ WorldRank(p) = 0 THEN GatedCalls(p) ELSE 0

\* C18 as stated: with PrintAllProcs false, Printf and Println write only
\* on rank 0; with PrintAllProcs true every rank writes and every written
\* line is prefixed with the emitting rank's identifier.
C18_RankGatedOutput ==
    /\ OnlyRankZeroUnlessAll
    /\ PrintAllProcs =>
          \A p \in Procs : \A i \in Gated(p) : prt[p].out[i].pre = <<WorldRank(p)>>

\* C18, amended: the same, but it is the lines of the ranks above 0 that
\* are prefixed with the rank, whatever PrintAllProcs is; the lines of
\* rank 0 are written as given.
C18_RankGatedPrefix ==
    /\ OnlyRankZeroUnlessAll
    /\ \A p \in Procs : \A i \in Gated(p) :
          prt[p].out[i].pre = IF WorldRank(p) > 0 THEN <<WorldRank(p)>> ELSE <<>>

\* with PrintAllProcs true, rank 0 and rank 1 have each written a line
C18_Witness ==
    /\ PrintAllProcs /\ nproc = 2
    /\ \E i \in Gated(0) : prt[0].out[i].pre = <<>>
    /\ \E i \in Gated(1) : prt[1].out[i].pre = <<1>>

(***************************************************************************)
(* Claims about FixedTable, checked under SpecFixed.                       *)
(***************************************************************************)
\* the table rows divide evenly over the processes
EvenRows == GoMod(n, WorldSize) = 0
\* the block of positions the even-division rule gives process p
BlockSt(p) == GoDiv(n, WorldSize) * WorldRank(p)
BlockEd(p) == BlockSt(p) + GoDiv(n, WorldSize)

\* C19: with N rows, N mod size = 0, on rank r after Init(run) and every
\* later Step, TrialSt <= Trial.Cur < TrialEd, where TrialSt = (N/size)*r
\* and TrialEd = TrialSt + N/size; the first Step after Init sets
\* Trial.Cur = TrialSt, and no position of Order outside [TrialSt, TrialEd)
\* is ever presented.
C19_SubRange ==
    EvenRows =>
        \A p \in Procs : ft[p].inited =>
            /\ ft[p].TrialSt = BlockSt(p) /\ ft[p].TrialEd = BlockEd(p)
            /\ ft[p].steps = 1 => ft[p].Trial.Cur = ft[p].TrialSt
            /\ ft[p].steps >= 1 =>
                  (ft[p].TrialSt <= ft[p].Trial.Cur /\ ft[p].Trial.Cur < ft[p].TrialEd)

\* the part of C19 the code keeps: the block bounds, the first Step, and
\* the sub-range on rank 0
C19_RankZeroSubRange ==
    EvenRows =>
        \A p \in Procs : ft[p].inited =>
            /\ ft[p].TrialSt = BlockSt(p) /\ ft[p].TrialEd = BlockEd(p)
            /\ ft[p].steps = 1 => ft[p].Trial.Cur = ft[p].TrialSt
            /\ (ft[p].steps >= 1 /\ WorldRank(p) = 0) =>
                  (ft[p].TrialSt <= ft[p].Trial.Cur /\ ft[p].Trial.Cur < ft[p].TrialEd)

\* the program drives the environment with Init and Step alone: no process
\* has called NewOrder or PermuteOrder itself
OnlySteps == \A p \in Procs : ft[p].direct = 0

\* the epoch process p is in after its Steps, were it to change once every
\* N/size Steps
EpochOf(p) == IF ft[p].steps = 0 THEN 0 ELSE GoDiv(ft[p].steps - 1, GoDiv(n, WorldSize))

\* C20: with N mod size = 0 and the same seed on all ranks, after j Steps
\* on each rank all ranks have the same Epoch.Cur and the same Order, and
\* on every rank the epoch increments and Order is re-permuted exactly once
\* every N/size Steps.
C20_Lockstep ==
    (EvenRows /\ OnlySteps) =>
        /\ \A p, q \in Procs :
              (ft[p].inited /\ ft[q].inited /\ ft[p].steps = ft[q].steps) =>
                  (ft[p].Epoch.Cur = ft[q].Epoch.Cur /\ ft[p].Order = ft[q].Order)
        /\ \A p \in Procs : ft[p].inited =>
              /\ ft[p].Epoch.Cur = EpochOf(p)
              /\ Len(ft[p].rng) = 1 + EpochOf(p)

\* the part of C20 the code keeps: rank 0 changes epoch and re-permutes
\* once every N/size Steps
C20_RankZeroEpochs ==
    (EvenRows /\ OnlySteps) =>
        \A p \in Procs : (ft[p].inited /\ WorldRank(p) = 0) =>
            /\ ft[p].Epoch.Cur = EpochOf(p)
            /\ Len(ft[p].rng) = 1 + EpochOf(p)

(***************************************************************************)
(* Claims about Error and LogErrors, checked under SpecFault.              *)
(***************************************************************************)
\* the call names the wrapper hands to Error
Contexts == {"Bcast64", "Reduce64", "AllReduce64", "Gather", "AllGather", "Scatter",
             "Barrier", "Send64", "Recv64", "MPI_Comm_group", "Comm_create"}
\* e is what Error builds for the status ec: nil for success, else the
\* code, a call name and the transport's message for the code
BuiltFor(e, ec) ==
    /\ e = Nil <=> ec = MPI_SUCCESS
    /\ ec # MPI_SUCCESS => (e.code = ec /\ e.text \in Contexts /\ e.msg = ErrorString(ec))
\* the errors Error has built on process p, in order
ErrorsOf(p) == SelectSeq(<<cm.err[p], ret[p]>>, LAMBDA e : e # Nil)

\* C21: Error(code, ctxt) returns nil exactly when code is the success
\* status; otherwise the error carries the code, the call name and the
\* transport message; a log entry is written exactly when LogErrors is
\* true, and the error returned does not depend on LogErrors.
C21_ErrorAndLogging ==
    /\ \A p \in Procs : pc[p] = "returned" => BuiltFor(ret[p], status[p])
    /\ \A p \in Procs : (cm.at[p] = "done" /\ mode = "mpi") =>
          BuiltFor(cm.err[p], cm.sts[p][Len(cm.sts[p])])
    /\ \A p \in Procs : log[p] = IF LogErrors THEN ErrorsOf(p) ELSE <<>>

\* with LogErrors off a verb has failed, returned its error and logged nothing
C21_Witness ==
    \E p \in Procs :
        /\ ~LogErrors /\ pc[p] = "returned" /\ status[p] # MPI_SUCCESS
        /\ ret[p] # Nil /\ log[p] = <<>>
\* with LogErrors on a verb has failed, returned its error and logged it
C21_LoggedWitness ==
    \E p \in Procs :
        /\ LogErrors /\ pc[p] = "returned" /\ status[p] # MPI_SUCCESS /\ log[p] = <<ret[p]>>

(***************************************************************************)
(* Claims about the imbalance logging, checked under SpecImbalance.        *)
(***************************************************************************)
\* the entries of a log
Entries(lg) == {lg[i] : i \in 1 .. Len(lg)}
Uneven == GoMod(n, WorldSize) # 0

\* C22: when n mod size # 0, AllocN logs the imbalance whatever LogErrors
\* is and still returns; NewOrder likewise logs and goes on with
\* TrialSt = (N div size) * rank and TrialEd = TrialSt + (N div size),
\* without aborting or panicking (a panic comes from Row() alone).
C22_ImbalanceLogged ==
    Uneven =>
        \A p \in Procs :
            /\ alloc[p].called =>
                  /\ AllocErr \in Entries(log[p])
                  /\ alloc[p].st = GoDiv(n, WorldSize) * WorldRank(p)
                  /\ alloc[p].end = alloc[p].st + GoDiv(n, WorldSize)
            /\ ft[p].inited =>
                  /\ OrderErr \in Entries(log[p])
                  /\ ft[p].TrialSt = GoDiv(n, WorldSize) * WorldRank(p)
                  /\ ft[p].TrialEd = ft[p].TrialSt + GoDiv(n, WorldSize)
                  /\ ft[p].panic => ~RowInRange(ft[p])

\* 3 items on 2 processes with LogErrors off: rank 1 has been through both
\* helpers, NewOrder twice (in Init and by itself), has logged every
\* imbalance and has gone on
C22_Witness ==
    /\ ~LogErrors /\ n = 3 /\ WorldSize = 2
    /\ alloc[1].called /\ alloc[1].st = 1 /\ alloc[1].end = 2
    /\ ft[1].inited /\ ft[1].TrialSt = 1 /\ ft[1].TrialEd = 2
    /\ ft[1].direct = 1 /\ ft[1].rng = <<Perm, Perm>> /\ ~ft[1].panic
    /\ Entries(log[1]) = {AllocErr, OrderErr} /\ Len(log[1]) = 3

(***************************************************************************)
(* Claims about the string and boolean gathers, checked under SpecRows.    *)
(***************************************************************************)
\* every member has made its call
AllCalled == cm.made /\ \A i \in 1 .. Len(Members) : pc[Members[i]] # "idle"
\* every string every member contributes to column c is empty
AllEmpty(c) ==
    /\ AllCalled
    /\ \A i \in 1 .. Len(Members) : \A k \in 1 .. tsr.rows : orig[Members[i]][c][k] = <<>>

\* C23: when every string contributed by every rank is empty (global
\* maximum length 0), GatherTensorRowsString performs only the length
\* all-gather, issues no payload all-gather, and, the length all-gather
\* having succeeded, returns nil.
C23_EmptyStringsSkipPayload ==
    \A p \in Procs : \A c \in 1 .. NCols :
        (tsr.call # "none" /\ IsMember(p) /\ tsr.kinds[c] = "STRING" /\ AllEmpty(c)) =>
            /\ <<c, "bytes">> \notin loc[p].entered
            /\ (tsr.call = "tensor" /\ Returned(p)) =>
                  /\ loc[p].entered = {<<c, "lens">>}
                  /\ Len(loc[p].sts) = 1
                  /\ NoFailure(p) => ret[p] = Nil

\* two processes gathered one empty string each over World and are back
C23_Witness ==
    /\ mode = "mpi" /\ nproc = 2 /\ cm.made /\ Size = 2
    /\ tsr.call = "tensor" /\ tsr.kinds = <<"STRING">> /\ AllEmpty(1)
    /\ \A p \in Procs : Returned(p) /\ ret[p] = Nil /\ loc[p].sts = <<MPI_SUCCESS>>

\* C24: for a boolean tensor or column GatherTensorRows issues no
\* collective call, returns a nil error and transfers no cell values into
\* dest: dest is only resized to np * local rows, np the number of
\* processes the helper reads.
C24_BoolNoTransfer ==
    \A p \in Procs :
        (tsr.call # "none" /\ cm.made /\ IsMember(p) /\ pc[p] # "idle") =>
            /\ \A c \in 1 .. NCols : tsr.kinds[c] = "BOOL" =>
                  /\ \A ph \in {"vals", "lens", "bytes"} : <<c, ph>> \notin loc[p].entered
                  /\ dest[p][c] = SetNumRows(entry[p].dest[c], WorldSize * tsr.rows, "BOOL")
            /\ (tsr.call = "tensor" /\ tsr.kinds = <<"BOOL">>) =>
                  /\ Returned(p) /\ ret[p] = Nil
                  /\ loc[p].entered = {} /\ loc[p].sts = <<>>

\* two processes called GatherTensorRows on a boolean tensor with a dest
\* used before: both are back, dest has its old cells, none of src's
C24_Witness ==
    /\ mode = "mpi" /\ nproc = 2 /\ cm.made /\ Size = 2
    /\ tsr.call = "tensor" /\ tsr.kinds = <<"BOOL">> /\ tsr.d0 > 0
    /\ \A p \in Procs : Returned(p) /\ ret[p] = Nil
    /\ orig[1][1][1] = 1 /\ \A i \in 1 .. Len(dest[0][1]) : dest[0][1][i] = StaleOf("BOOL")

(***************************************************************************)
(* Claims about the two phases of the string gather, checked under         *)
(* SpecRowsFair.                                                           *)
(***************************************************************************)
\* the place of column c's length all-gather among the collectives of a call
LensIdx(c) == Cardinality({d \in 1 .. c : tsr.kinds[d] # "BOOL"})
\* the length all-gather of column c has returned success on process p
LensOk(p, c) ==
    /\ <<c, "lens">> \in loc[p].entered
    /\ Len(loc[p].sts) >= LensIdx(c)
    /\ loc[p].sts[LensIdx(c)] = MPI_SUCCESS
\* the maximum length process p computed
MaxLenOf(p) == MaxInt(loc[p].dln, Len(loc[p].dln))
StringCols == {c \in 1 .. NCols : tsr.kinds[c] = "STRING"}
MemberSet == {Members[i] : i \in 1 .. Len(Members)}

\* members on which the length all-gather succeeded hold the same maximum
\* and took the same way; the payload comes after the lengths and every
\* contribution to it is local count * maximum bytes
TwoPhaseAgreement ==
    (tsr.call # "none" /\ cm.made) =>
        \A c \in StringCols : \A p \in MemberSet :
            /\ <<c, "bytes">> \in loc[p].entered =>
                  /\ LensOk(p, c) /\ MaxLenOf(p) > 0
                  /\ Len(Padded(SrcOf(p, c), MaxLenOf(p))) = tsr.rows * MaxLenOf(p)
            /\ \A q \in MemberSet : (LensOk(p, c) /\ LensOk(q, c)) =>
                  /\ MaxLenOf(p) = MaxLenOf(q)
                  /\ <<c, "bytes">> \in loc[p].entered <=> <<c, "bytes">> \in loc[q].entered
\* process p is in a payload all-gather and the length all-gather succeeded
\* on every member
InPayload(p) ==
    /\ tsr.call # "none" /\ cm.made /\ p \in MemberSet
    /\ loc[p].ph = "bytes"
    /\ \A q \in MemberSet : LensOk(q, loc[p].ci)

\* C25: in every run where the length all-gather succeeds on all members,
\* all members compute the same maximum length M, so either every member
\* issues the payload all-gather with a contribution of local count * M
\* bytes or none does; no member stays blocked in a payload all-gather,
\* and on every member the length all-gather comes before the payload's.
C25_TwoPhaseAgreement ==
    /\ []TwoPhaseAgreement
    /\ \A p \in AllProcs : InPayload(p) ~> (loc[p].ph # "bytes")

\* two processes with strings of different lengths have both been through
\* the length and the payload all-gather and are back
C25_Witness ==
    /\ mode = "mpi" /\ nproc = 2 /\ cm.made /\ Size = 2
    /\ tsr.call = "tensor" /\ tsr.kinds = <<"STRING">>
    /\ \A p \in Procs :
          /\ Returned(p) /\ loc[p].sts = <<MPI_SUCCESS, MPI_SUCCESS>>
          /\ MaxLenOf(p) = 1 /\ <<1, "bytes">> \in loc[p].entered
    /\ Len(orig[0][1][1]) # Len(orig[1][1][1])

\* ord is a permutation of 0 .. n-1
IsPerm(ord) == Len(ord) = n /\ {ord[i] : i \in 1 .. Len(ord)} = 0 .. (n - 1)
\* how often row r was presented in epoch e, over all ranks
TimesShown(e, r) ==
    Cardinality({pi \in Procs \X (1 .. MaxSteps) :
                    /\ pi[2] <= Len(ft[pi[1]].shown)
                    /\ ft[pi[1]].shown[pi[2]] = [ep |-> e, row |-> r]})
\* every rank has left epoch e behind
EpochOver(e) == \A p \in Procs : ft[p].inited /\ ft[p].Epoch.Cur > e
\* Order is a permutation and, from the first Step on, Row() is a row of
\* the table
ValidRows ==
    \A p \in Procs : ft[p].inited =>
        /\ IsPerm(ft[p].Order)
        /\ ft[p].steps >= 1 =>
              (~ft[p].panic /\ RowInRange(ft[p]) /\ Row(ft[p]) \in 0 .. (n - 1))

\* C26: with the rows dividing evenly, after Init and after any number of
\* Steps Order is a permutation of 0 .. N-1, so Row() is always a valid
\* table row, and within one epoch the positions [TrialSt, TrialEd) of all
\* ranks together present every row exactly once.
C26_OrderInvariant ==
    (EvenRows /\ OnlySteps) =>
        /\ ValidRows
        /\ \A e \in 0 .. MaxSteps : EpochOver(e) =>
              \A r \in 0 .. (n - 1) : TimesShown(e, r) = 1

\* the part of C26 the code keeps: Order is a permutation, Row() is valid,
\* and the first epoch presents every row exactly once
C26_FirstEpoch ==
    (EvenRows /\ OnlySteps) =>
        /\ ValidRows
        /\ EpochOver(0) => \A r \in 0 .. (n - 1) : TimesShown(0, r) = 1

====
